---- MODULE Spec2Model ----
(***************************************************************************)
(* Model of src-tauri/src/main.rs: the secrets vault (SecretsCache and the *)
(* get/set/delete commands over the platform credential store), and the    *)
(* local API sidecar supervisor (start_local_api, stop_local_api,          *)
(* graceful_kill, set_local_first_mode).                                   *)
(***************************************************************************)
EXTENDS Integers, Sequences, FiniteSets, TLC

(***************************************************************************)
(* Bounds of the model.                                                    *)
(***************************************************************************)
\* number of command-pool threads calling the vault commands
NVaultThreads == 2
\* number of vault command calls in one run
MaxVaultCalls == 2
\* number of times the host process is started (load_from_keychain runs)
MaxLoads == 2
\* number of threads calling start_local_api, stop_local_api, set_local_first_mode
NSupThreads == 2
\* number of such calls in one run
MaxSupCalls == 2

(***************************************************************************)
(* Strings are sequences of characters; str::trim is computed.             *)
(***************************************************************************)
Chars == {" ", "a"}

IsWhitespace(c) == c = " "

RECURSIVE TrimStart(_)
TrimStart(s) ==
    IF s = <<>> THEN s
    ELSE IF IsWhitespace(Head(s)) THEN TrimStart(Tail(s)) ELSE s

RECURSIVE TrimEnd(_)
TrimEnd(s) ==
    IF s = <<>> THEN s
    ELSE IF IsWhitespace(s[Len(s)]) THEN TrimEnd(SubSeq(s, 1, Len(s) - 1)) ELSE s

\* str::trim
Trim(s) == TrimEnd(TrimStart(s))

(***************************************************************************)
(* Option<T> is a set with at most one element.                            *)
(***************************************************************************)
None == {}
Some(v) == {v}
Unwrap(o) == CHOOSE v \in o : TRUE

(***************************************************************************)
(* HashMap<String, String> is a function on a finite set of keys.          *)
(***************************************************************************)
EmptyMap == <<>>
MapInsert(m, k, v) == [x \in DOMAIN m \cup {k} |-> IF x = k THEN v ELSE m[x]]
MapRemove(m, k) == [x \in DOMAIN m \ {k} |-> m[x]]
MapGet(m, k) == IF k \in DOMAIN m THEN Some(m[k]) ELSE None

(***************************************************************************)
(* The allowlist.  The source lists 25 keys; the model keeps the first two *)
(* in their order, and one key that is not in the list.                    *)
(***************************************************************************)
SUPPORTED_SECRET_KEYS == <<"GROQ_API_KEY", "OPENROUTER_API_KEY">>

SupportedKeySet == {SUPPORTED_SECRET_KEYS[i] : i \in 1..Len(SUPPORTED_SECRET_KEYS)}

\* SUPPORTED_SECRET_KEYS.contains(&key)
IsSupportedKey(k) == k \in SupportedKeySet

UnsupportedKey == "NOT_A_SECRET_KEY"

AllKeys == SupportedKeySet \cup {UnsupportedKey}

(***************************************************************************)
(* The text of the consolidated credential-store entry "secrets-vault".    *)
(* A JSON object is the sequence of its members, each <<key, value>>, a    *)
(* value being a JSON string [str |-> s] or some other JSON value.         *)
(***************************************************************************)
JsonStr(s) == [t |-> "string", s |-> s]
JsonNum == [t |-> "number", s |-> <<>>]
EntryAbsent == [kind |-> "absent", members |-> <<>>]
EntryGarbage == [kind |-> "garbage", members |-> <<>>]
EntryEmpty == [kind |-> "empty", members |-> <<>>]
EntryObject(ms) == [kind |-> "object", members |-> ms]

RECURSIVE MembersToMap(_)
MembersToMap(ms) ==
    IF ms = <<>> THEN EmptyMap
    ELSE LET rest == MembersToMap(SubSeq(ms, 1, Len(ms) - 1))
             last == ms[Len(ms)]
         IN MapInsert(rest, last[1], last[2].s)

\* serde_json::from_str::<HashMap<String, String>>: Some(map), or None on error
ParseVault(text) ==
    IF text.kind = "object"
       /\ \A i \in 1..Len(text.members) : text.members[i][2].t = "string"
    THEN Some(MembersToMap(text.members))
    ELSE None

\* the orders a HashMap may be iterated in
Orderings(S) ==
    {q \in [1..Cardinality(S) -> S] : \A i, j \in 1..Cardinality(S) : i # j => q[i] # q[j]}

\* serde_json::to_string(&map): one text per iteration order of the map
SerializeVault(m) ==
    {EntryObject([i \in 1..Len(q) |-> <<q[i], JsonStr(m[q[i]])>>]) : q \in Orderings(DOMAIN m)}

\* FilterLoaded keeping the keys outside the allowlist
FilterLoadedAnyKey(m) ==
    LET keep == {k \in DOMAIN m : Trim(m[k]) # <<>>}
    IN [k \in keep |-> Trim(m[k])]

\* the filter and map of the consolidated path of load_from_keychain
FilterLoaded(m) ==
    LET keep == {k \in DOMAIN m : IsSupportedKey(k) /\ Trim(m[k]) # <<>>}
    IN [k \in keep |-> Trim(m[k])]

(***************************************************************************)
(* State.                                                                  *)
(***************************************************************************)
VARIABLES
    \* the credential store (service "world-monitor")
    vaultEntry,     \* text of the entry "secrets-vault"
    legacy,         \* per-key entries: key -> Option<String>
    \* SecretsCache::load_from_keychain, run once per start of the host
    lpc,            \* where load_from_keychain is
    lidx,           \* index of the for loop over SUPPORTED_SECRET_KEYS
    acc,            \* the local `secrets` map of the migration path
    loads,          \* how many times the host has been started
    ioFailed,       \* the kinds of credential-store call that failed in this load,
                    \* and the accounts whose read failed
    boot,           \* the credential store this load started on
    wrote,          \* this load wrote the consolidated entry
    hist,           \* what each finished load returned and left in the store
    \* SecretsCache
    secrets,        \* the HashMap behind cache.secrets
    vaultLock,      \* the thread holding the Mutex of cache.secrets, 0 when free
    poisoned,       \* a thread panicked while it held the Mutex of cache.secrets
    \* the vault commands, one call at a time per command-pool thread
    vt,             \* per thread: where its call is, its arguments and its result
    vcalls,         \* calls made so far
    commits,        \* a set_secret or delete_secret call of this run has returned Ok
    linear,         \* the vault of the calls that returned Ok, applied one at a time
    \* LocalApiState and the sidecar processes
    childLock,      \* the thread holding the Mutex of state.child, 0 when free
    slot,           \* state.child: Option<Child>, a child being its index in procs
    token,          \* state.token: Option<String>
    procs,          \* every sidecar spawned so far: its state and its environment
    unix,           \* the build is cfg(unix)
    \* the files under app_data_dir
    prefsFile,      \* runtime-prefs.json
    tmpFile,        \* runtime-prefs.json.tmp
    \* the supervisor calls, one at a time per thread
    st,             \* per thread: where its call is, its argument and its result
    scalls,         \* calls made so far
    \* one call of a function that touches none of the state above
    args,           \* its arguments
    result          \* Some(what it returned), NoResult before it has

storeVars == <<vaultEntry, legacy>>
loadVars == <<lpc, lidx, acc, loads, ioFailed, boot, wrote, hist>>
cacheVars == <<secrets, linear>>
cmdVars == <<vaultLock, poisoned, vt, vcalls, commits>>
vaultVars == <<storeVars, loadVars, cacheVars, cmdVars>>
apiVars == <<childLock, slot, token, procs, unix>>
fileVars == <<prefsFile, tmpFile>>
supVars == <<apiVars, fileVars, st, scalls>>
fnVars == <<args, result>>
vars == <<vaultVars, supVars, fnVars>>

SupThreads == 1..NSupThreads

\* the thread of main: setup, then the run-event handler
MainThread == NSupThreads + 1

VaultThreads == 1..NVaultThreads

NKeys == Len(SUPPORTED_SECRET_KEYS)

(***************************************************************************)
(* The credential stores a host may be started on.                         *)
(***************************************************************************)
\* contents an entry written by an earlier version, or by hand, may hold:
\* whitespace only, a clean value, a value with surrounding whitespace
StoredStrings == {<<" ">>, <<"a">>, <<" ", "a", "a">>}

StoredMaps ==
    {m \in UNION {[D -> StoredStrings] : D \in SUBSET AllKeys} :
        UnsupportedKey \in DOMAIN m => m[UnsupportedKey] = <<"a">>}

\* the member order of the texts the model starts from
KeyOrder == SUPPORTED_SECRET_KEYS \o <<UnsupportedKey>>

RECURSIVE MembersOf(_, _)
MembersOf(m, i) ==
    IF i > Len(KeyOrder) THEN <<>>
    ELSE (IF KeyOrder[i] \in DOMAIN m
          THEN <<(<<KeyOrder[i], JsonStr(m[KeyOrder[i]])>>)>>
          ELSE <<>>) \o MembersOf(m, i + 1)

InitVaultEntries ==
    {EntryAbsent, EntryGarbage,
     EntryObject(<<(<<SUPPORTED_SECRET_KEYS[1], JsonNum>>)>>)}
    \cup {EntryObject(MembersOf(m, 1)) : m \in StoredMaps}

InitLegacy == [SupportedKeySet -> {None} \cup {Some(s) : s \in StoredStrings}]

InitLoad ==
    /\ lpc = "read_vault"
    /\ lidx = 1
    /\ acc = EmptyMap
    /\ loads = 1
    /\ ioFailed = {}
    /\ boot = [vault |-> vaultEntry, legacy |-> legacy]
    /\ wrote = FALSE
    /\ hist = <<>>
    /\ secrets = EmptyMap
    /\ linear = EmptyMap

(***************************************************************************)
(* SecretsCache::load_from_keychain                                        *)
(***************************************************************************)
\* the account of the consolidated entry
VaultAccount == "secrets-vault"

\* a credential-store call may fail; the failure of a call on an entry that is
\* not there cannot be told from its NoEntry error, so none is drawn for it
Outcomes(present) == IF present THEN BOOLEAN ELSE {FALSE}

\* the SecretsCache is returned: the load is over
Finished(map, entry, leg, failed, didWrite) ==
    /\ lpc' = "done"
    /\ secrets' = map
    /\ linear' = map
    /\ hist' = Append(hist, [before |-> boot, map |-> map, vault |-> entry,
                             legacy |-> leg, failed |-> failed, wrote |-> didWrite])

\* lines 85-100: the consolidated entry is read and parsed
LoadReadVault ==
    /\ lpc = "read_vault"
    /\ \E fail \in Outcomes(ParseVault(vaultEntry) # None) :
        LET parsed == IF fail \/ vaultEntry.kind = "absent"
                      THEN None ELSE ParseVault(vaultEntry)
            failed == IF fail THEN ioFailed \cup {"read", VaultAccount} ELSE ioFailed
        IN /\ ioFailed' = failed
           /\ IF parsed # None
              THEN /\ Finished(FilterLoaded(Unwrap(parsed)), vaultEntry, legacy,
                               failed, FALSE)
                   /\ UNCHANGED <<lidx, acc>>
              ELSE /\ lpc' = "read_legacy"
                   /\ lidx' = 1
                   /\ acc' = EmptyMap
                   /\ UNCHANGED <<cacheVars, hist>>
    /\ UNCHANGED <<storeVars, loads, boot, wrote, cmdVars, supVars, fnVars>>

\* LoadReadLegacy with the value inserted as read, not trimmed
LoadReadLegacyUntrimmed ==
    /\ lpc = "read_legacy"
    /\ \E fail \in Outcomes(legacy[SUPPORTED_SECRET_KEYS[lidx]] # None) :
        LET key == SUPPORTED_SECRET_KEYS[lidx]
            value == IF fail THEN None ELSE legacy[key]
        IN /\ ioFailed' = (IF fail THEN ioFailed \cup {"read", key} ELSE ioFailed)
           /\ acc' = IF value # None /\ Trim(Unwrap(value)) # <<>>
                     THEN MapInsert(acc, key, Unwrap(value))
                     ELSE acc
    /\ IF lidx < NKeys
       THEN lidx' = lidx + 1 /\ lpc' = lpc
       ELSE lidx' = 1 /\ lpc' = "write_vault"
    /\ UNCHANGED <<storeVars, loads, boot, wrote, hist, cacheVars, cmdVars, supVars, fnVars>>

\* LoadReadLegacy with a failed read ending the loop with nothing collected
LoadReadLegacyAbortsOnError ==
    /\ lpc = "read_legacy"
    /\ \E fail \in Outcomes(legacy[SUPPORTED_SECRET_KEYS[lidx]] # None) :
        LET key == SUPPORTED_SECRET_KEYS[lidx]
            value == IF fail THEN None ELSE legacy[key]
        IN /\ ioFailed' = (IF fail THEN ioFailed \cup {"read", key} ELSE ioFailed)
           /\ acc' = IF fail THEN EmptyMap
                     ELSE IF value # None /\ Trim(Unwrap(value)) # <<>>
                     THEN MapInsert(acc, key, Trim(Unwrap(value)))
                     ELSE acc
           /\ IF lidx < NKeys /\ ~fail
              THEN lidx' = lidx + 1 /\ lpc' = lpc
              ELSE lidx' = 1 /\ lpc' = "write_vault"
    /\ UNCHANGED <<storeVars, loads, boot, wrote, hist, cacheVars, cmdVars, supVars, fnVars>>

\* lines 104-114: one iteration of the loop reading the per-key entries
LoadReadLegacy ==
    /\ lpc = "read_legacy"
    /\ \E fail \in Outcomes(legacy[SUPPORTED_SECRET_KEYS[lidx]] # None) :
        LET key == SUPPORTED_SECRET_KEYS[lidx]
            value == IF fail THEN None ELSE legacy[key]
        IN /\ ioFailed' = (IF fail THEN ioFailed \cup {"read", key} ELSE ioFailed)
           /\ acc' = IF value # None /\ Trim(Unwrap(value)) # <<>>
                     THEN MapInsert(acc, key, Trim(Unwrap(value)))
                     ELSE acc
    /\ IF lidx < NKeys
       THEN lidx' = lidx + 1 /\ lpc' = lpc
       ELSE lidx' = 1 /\ lpc' = "write_vault"
    /\ UNCHANGED <<storeVars, loads, boot, wrote, hist, cacheVars, cmdVars, supVars, fnVars>>

\* LoadWriteVault with the per-key entries deleted whatever set_password returned
LoadWriteVaultThenDeleteAnyway ==
    /\ lpc = "write_vault"
    /\ IF acc = EmptyMap
       THEN /\ Finished(acc, vaultEntry, legacy, ioFailed, FALSE)
            /\ UNCHANGED <<vaultEntry, ioFailed, wrote>>
       ELSE \E fail \in BOOLEAN :
            /\ IF fail
               THEN /\ ioFailed' = ioFailed \cup {"write"}
                    /\ UNCHANGED <<vaultEntry, wrote>>
               ELSE /\ \E text \in SerializeVault(acc) : vaultEntry' = text
                    /\ wrote' = TRUE
                    /\ UNCHANGED ioFailed
            /\ lpc' = "delete_legacy"
            /\ UNCHANGED <<hist, cacheVars>>
    /\ UNCHANGED <<legacy, lidx, acc, loads, boot, cmdVars, supVars, fnVars>>

\* lines 117-120: the consolidated entry is written
LoadWriteVault ==
    /\ lpc = "write_vault"
    /\ IF acc = EmptyMap
       THEN /\ Finished(acc, vaultEntry, legacy, ioFailed, FALSE)
            /\ UNCHANGED <<vaultEntry, ioFailed, wrote>>
       ELSE \E fail \in BOOLEAN :
            IF fail
            THEN /\ ioFailed' = ioFailed \cup {"write"}
                 /\ Finished(acc, vaultEntry, legacy, ioFailed \cup {"write"}, FALSE)
                 /\ UNCHANGED <<vaultEntry, wrote>>
            ELSE /\ \E text \in SerializeVault(acc) : vaultEntry' = text
                 /\ wrote' = TRUE
                 /\ lpc' = "delete_legacy"
                 /\ UNCHANGED <<ioFailed, hist, cacheVars>>
    /\ UNCHANGED <<legacy, lidx, acc, loads, boot, cmdVars, supVars, fnVars>>

\* lines 121-125: one iteration of the loop deleting the per-key entries
LoadDeleteLegacy ==
    /\ lpc = "delete_legacy"
    /\ \E fail \in Outcomes(legacy[SUPPORTED_SECRET_KEYS[lidx]] # None) :
        LET key == SUPPORTED_SECRET_KEYS[lidx]
            leg == IF fail THEN legacy ELSE [legacy EXCEPT ![key] = None]
            failed == IF fail THEN ioFailed \cup {"delete"} ELSE ioFailed
        IN /\ legacy' = leg
           /\ ioFailed' = failed
           /\ IF lidx < NKeys
              THEN /\ lidx' = lidx + 1
                   /\ UNCHANGED <<lpc, hist, cacheVars>>
              ELSE /\ lidx' = 1
                   /\ Finished(acc, vaultEntry, leg, failed, wrote)
    /\ UNCHANGED <<vaultEntry, acc, loads, boot, wrote, cmdVars, supVars, fnVars>>

LoadStep ==
    \/ LoadReadVault
    \/ LoadReadLegacy
    \/ LoadWriteVault
    \/ LoadDeleteLegacy

\* the host process is started again: main builds a new SecretsCache
Restart ==
    /\ lpc = "done"
    /\ loads < MaxLoads
    /\ loads' = loads + 1
    /\ lpc' = "read_vault"
    /\ lidx' = 1
    /\ acc' = EmptyMap
    /\ secrets' = EmptyMap
    /\ linear' = EmptyMap
    /\ ioFailed' = {}
    /\ boot' = [vault |-> vaultEntry, legacy |-> legacy]
    /\ wrote' = FALSE
    /\ UNCHANGED <<storeVars, hist, cmdVars, supVars, fnVars>>

\* no function is being evaluated
NoResult == None

InitNoFunction ==
    /\ args = NoResult
    /\ result = NoResult

\* no supervisor call has been made
IdleCall ==
    [pc |-> "idle", op |-> "none", arg |-> FALSE, ret |-> "none",
     child |-> 0, elapsed |-> 0, spawned |-> FALSE,
     buf |-> EntryAbsent, fd |-> "none"]

\* LocalApiState::default(), and nothing spawned
InitLocalApi ==
    /\ childLock = 0
    /\ slot = None
    /\ token = None
    /\ procs = <<>>
    /\ st = [t \in SupThreads \cup {MainThread} |-> IdleCall]
    /\ scalls = 0

\* the supervisor as the vault is checked: idle, no preference file written
InitSupervisorIdle ==
    /\ InitLocalApi
    /\ unix = TRUE
    /\ prefsFile = EntryAbsent
    /\ tmpFile = EntryAbsent

\* no command has been invoked
IdleThread ==
    [pc |-> "idle", op |-> "none", key |-> "", val |-> <<>>,
     prop |-> EmptyMap, ret |-> "none", got |-> None, all |-> EmptyMap]

InitCommands ==
    /\ vaultLock = 0
    /\ poisoned = FALSE
    /\ vt = [t \in VaultThreads |-> IdleThread]
    /\ vcalls = 0
    /\ commits = FALSE

LoadInit ==
    /\ vaultEntry \in InitVaultEntries
    /\ legacy \in InitLegacy
    /\ InitLoad
    /\ InitCommands
    /\ InitSupervisorIdle
    /\ InitNoFunction

LoadNext ==
    \/ LoadStep
    \/ Restart

\* the host started MaxLoads times on one credential store
LoadSpec == LoadInit /\ [][LoadNext]_vars

(***************************************************************************)
(* The vault commands: get_secret, get_all_secrets, set_secret,            *)
(* delete_secret.                                                          *)
(***************************************************************************)
\* the values passed to set_secret: empty, whitespace only, a value with
\* whitespace at both ends, and a value that trim leaves as it is
InputValues == {<<>>, <<" ">>, <<" ", "a", " ">>, <<"a", "a">>}

VaultOps == {"get_secret", "get_all_secrets", "set_secret", "delete_secret"}

Mutators == {"set_secret", "delete_secret"}

\* set_secret with the value inserted as passed, not trimmed
ProposedUntrimmed(op, key, val, cur) ==
    IF op = "set_secret" /\ val # <<>>
    THEN MapInsert(cur, key, val)
    ELSE MapRemove(cur, key)

\* lines 235-242 (set_secret) and 257-258 (delete_secret): the proposed map
Proposed(op, key, val, cur) ==
    IF op = "set_secret" /\ Trim(val) # <<>>
    THEN MapInsert(cur, key, Trim(val))
    ELSE MapRemove(cur, key)

\* lines 203-210: what get_secret(key) returns on the map cur
GetSecret(cur, key) ==
    IF IsSupportedKey(key)
    THEN [ret |-> "ok", got |-> MapGet(cur, key)]
    ELSE [ret |-> "err_key", got |-> None]

\* the call returns
Returned(t, ret, got, all) ==
    vt' = [vt EXCEPT ![t].pc = "done", ![t].ret = ret, ![t].got = got,
                     ![t].all = all, ![t].prop = EmptyMap]

\* VaultCall with the check of the key left out of delete_secret
VaultCallNoCheckOnDelete(t) ==
    /\ lpc = "done"
    /\ vt[t].pc \in {"idle", "done"}
    /\ vcalls < MaxVaultCalls
    /\ vcalls' = vcalls + 1
    /\ \E op \in VaultOps, key \in AllKeys \cup {""}, val \in InputValues :
        /\ (op = "get_all_secrets") = (key = "")
        /\ op # "set_secret" => val = <<>>
        /\ LET call == [IdleThread EXCEPT !.op = op, !.key = key, !.val = val]
           IN IF op \in {"get_secret", "set_secret"} /\ ~IsSupportedKey(key)
              THEN vt' = [vt EXCEPT ![t] = [call EXCEPT !.pc = "done", !.ret = "err_key"]]
              ELSE vt' = [vt EXCEPT ![t] = [call EXCEPT !.pc = "locking"]]
    /\ UNCHANGED <<storeVars, loadVars, cacheVars, vaultLock, poisoned, commits, supVars, fnVars>>

\* a command is invoked on a command-pool thread with its arguments; lines
\* 203-205, 228-230, 250-252: the key is checked against the allowlist first
VaultCall(t) ==
    /\ lpc = "done"
    /\ vt[t].pc \in {"idle", "done"}
    /\ vcalls < MaxVaultCalls
    /\ vcalls' = vcalls + 1
    /\ \E op \in VaultOps, key \in AllKeys \cup {""}, val \in InputValues :
        /\ (op = "get_all_secrets") = (key = "")
        /\ op # "set_secret" => val = <<>>
        /\ LET call == [IdleThread EXCEPT !.op = op, !.key = key, !.val = val]
           IN IF op # "get_all_secrets" /\ ~IsSupportedKey(key)
              THEN vt' = [vt EXCEPT ![t] = [call EXCEPT !.pc = "done", !.ret = "err_key"]]
              ELSE vt' = [vt EXCEPT ![t] = [call EXCEPT !.pc = "locking"]]
    /\ UNCHANGED <<storeVars, loadVars, cacheVars, vaultLock, poisoned, commits, supVars, fnVars>>

\* the guard of lock(): the Mutex is free
LockFree(lock) == lock = 0

\* VaultRead with get_all_secrets returning an empty map on a poisoned lock
VaultReadDefaultOnPoison(t) ==
    /\ vt[t].pc = "locking"
    /\ vt[t].op \in {"get_secret", "get_all_secrets"}
    /\ LockFree(vaultLock)
    /\ IF vt[t].op = "get_secret"
       THEN IF poisoned
            THEN Returned(t, "err_lock", None, EmptyMap)
            ELSE Returned(t, "ok", MapGet(secrets, vt[t].key), EmptyMap)
       ELSE Returned(t, "ok", None, IF poisoned THEN EmptyMap ELSE secrets)
    /\ UNCHANGED <<storeVars, loadVars, cacheVars, vaultLock, poisoned, vcalls, commits, supVars, fnVars>>

\* lines 206-210, 215-219: cache.secrets.lock(), the map is read, the guard
\* dropped; on a poisoned lock get_secret returns Err and get_all_secrets
\* takes the guard out of the error
VaultRead(t) ==
    /\ vt[t].pc = "locking"
    /\ vt[t].op \in {"get_secret", "get_all_secrets"}
    /\ LockFree(vaultLock)
    /\ IF vt[t].op = "get_secret"
       THEN IF poisoned
            THEN Returned(t, "err_lock", None, EmptyMap)
            ELSE Returned(t, "ok", MapGet(secrets, vt[t].key), EmptyMap)
       ELSE Returned(t, "ok", None, secrets)
    /\ UNCHANGED <<storeVars, loadVars, cacheVars, vaultLock, poisoned, vcalls, commits, supVars, fnVars>>

\* VaultSave entering without the Mutex being free
VaultSaveNotExclusive(t) ==
    /\ vt[t].pc = "locking"
    /\ vt[t].op \in Mutators
    /\ LET proposed == Proposed(vt[t].op, vt[t].key, vt[t].val, secrets)
       IN \E fail \in BOOLEAN :
            IF poisoned
            THEN /\ Returned(t, "err_lock", None, EmptyMap)
                 /\ UNCHANGED <<vaultEntry, vaultLock>>
            ELSE IF fail
            THEN /\ Returned(t, "err_save", None, EmptyMap)
                 /\ UNCHANGED <<vaultEntry, vaultLock>>
            ELSE /\ \E text \in SerializeVault(proposed) : vaultEntry' = text
                 /\ vt' = [vt EXCEPT ![t].pc = "saved", ![t].prop = proposed]
                 /\ vaultLock' = t
    /\ UNCHANGED <<legacy, loadVars, cacheVars, poisoned, vcalls, commits, supVars, fnVars>>

\* VaultSave writing the map into the cache before it is persisted
VaultSaveCommitsFirst(t) ==
    /\ vt[t].pc = "locking"
    /\ vt[t].op \in Mutators
    /\ LockFree(vaultLock)
    /\ LET proposed == Proposed(vt[t].op, vt[t].key, vt[t].val, secrets)
       IN /\ secrets' = proposed
          /\ \E fail \in BOOLEAN :
               IF poisoned
               THEN /\ Returned(t, "err_lock", None, EmptyMap)
                    /\ UNCHANGED <<vaultEntry, vaultLock>>
               ELSE IF fail
               THEN /\ Returned(t, "err_save", None, EmptyMap)
                    /\ UNCHANGED <<vaultEntry, vaultLock>>
               ELSE /\ \E text \in SerializeVault(proposed) : vaultEntry' = text
                    /\ vt' = [vt EXCEPT ![t].pc = "saved", ![t].prop = proposed]
                    /\ vaultLock' = t
    /\ UNCHANGED <<legacy, loadVars, linear, poisoned, vcalls, commits, supVars, fnVars>>

\* VaultSave persisting the cache as it is, without the mutation
VaultSavePersistsCurrent(t) ==
    /\ vt[t].pc = "locking"
    /\ vt[t].op \in Mutators
    /\ LockFree(vaultLock)
    /\ LET proposed == Proposed(vt[t].op, vt[t].key, vt[t].val, secrets)
       IN \E fail \in BOOLEAN :
            IF poisoned
            THEN /\ Returned(t, "err_lock", None, EmptyMap)
                 /\ UNCHANGED <<vaultEntry, vaultLock>>
            ELSE IF fail
            THEN /\ Returned(t, "err_save", None, EmptyMap)
                 /\ UNCHANGED <<vaultEntry, vaultLock>>
            ELSE /\ \E text \in SerializeVault(secrets) : vaultEntry' = text
                 /\ vt' = [vt EXCEPT ![t].pc = "saved", ![t].prop = proposed]
                 /\ vaultLock' = t
    /\ UNCHANGED <<legacy, loadVars, cacheVars, poisoned, vcalls, commits, supVars, fnVars>>

\* lines 231-243, 253-259 and save_vault (143-152): cache.secrets.lock(), the
\* proposed map is built from a clone of the cache and written to the
\* consolidated entry; an error of save_vault is returned by `?`, which drops
\* the guard
VaultSave(t) ==
    /\ vt[t].pc = "locking"
    /\ vt[t].op \in Mutators
    /\ LockFree(vaultLock)
    /\ LET proposed == Proposed(vt[t].op, vt[t].key, vt[t].val, secrets)
       IN \E fail \in BOOLEAN :
            IF poisoned
            THEN /\ Returned(t, "err_lock", None, EmptyMap)
                 /\ UNCHANGED <<vaultEntry, vaultLock>>
            ELSE IF fail
            THEN /\ Returned(t, "err_save", None, EmptyMap)
                 /\ UNCHANGED <<vaultEntry, vaultLock>>
            ELSE /\ \E text \in SerializeVault(proposed) : vaultEntry' = text
                 /\ vt' = [vt EXCEPT ![t].pc = "saved", ![t].prop = proposed]
                 /\ vaultLock' = t
    /\ UNCHANGED <<legacy, loadVars, cacheVars, poisoned, vcalls, commits, supVars, fnVars>>

\* the vault a call that returned Ok leaves, by the contract of the commands:
\* set(K, V) binds K to V trimmed, or removes K when that is empty; delete(K)
\* removes K; every other key stays
LinearApply(op, key, val, m) ==
    LET keys == IF op = "set_secret" /\ Trim(val) # <<>>
                THEN DOMAIN m \cup {key} ELSE DOMAIN m \ {key}
    IN [k \in keys |-> IF k = key THEN Trim(val) ELSE m[k]]

\* lines 244-245, 260-261: *secrets = proposed; Ok(()), the guard is dropped
VaultCommit(t) ==
    /\ vt[t].pc = "saved"
    /\ secrets' = vt[t].prop
    /\ linear' = LinearApply(vt[t].op, vt[t].key, vt[t].val, linear)
    /\ Returned(t, "ok", None, EmptyMap)
    /\ vaultLock' = 0
    /\ commits' = TRUE
    /\ UNCHANGED <<storeVars, loadVars, poisoned, vcalls, supVars, fnVars>>

\* a panic under the guard of a mutating command: in save_vault, the only
\* code the guard is held over that is not of this file, before or after the
\* consolidated entry is written; the guard is dropped by the unwinding,
\* which poisons the Mutex, and the command never returns
VaultPanic(t) ==
    /\ vt[t].pc = "locking"
    /\ vt[t].op \in Mutators
    /\ LockFree(vaultLock)
    /\ ~poisoned
    /\ LET proposed == Proposed(vt[t].op, vt[t].key, vt[t].val, secrets)
       IN vaultEntry' \in {vaultEntry} \cup SerializeVault(proposed)
    /\ poisoned' = TRUE
    /\ Returned(t, "panic", None, EmptyMap)
    /\ UNCHANGED <<legacy, loadVars, cacheVars, vaultLock, vcalls, commits, supVars, fnVars>>

VaultStep(t) ==
    \/ VaultCall(t)
    \/ VaultRead(t)
    \/ VaultSave(t)
    \/ VaultCommit(t)

\* the stores the vault commands are checked on: a consolidated entry with an
\* untrimmed value and a key outside the allowlist, and per-key entries only
\* (the migration may fail to write the consolidated entry)
VaultInitStores ==
    {[vault |-> EntryObject(<<(<<SUPPORTED_SECRET_KEYS[1], JsonStr(<<" ", "a", "a">>)>>),
                              (<<UnsupportedKey, JsonStr(<<"a">>)>>)>>),
      legacy |-> [k \in SupportedKeySet |-> None]],
     [vault |-> EntryAbsent,
      legacy |-> [k \in SupportedKeySet |->
                    IF k = SUPPORTED_SECRET_KEYS[1] THEN Some(<<"a", " ">>) ELSE None]]}

VaultInit ==
    /\ \E store \in VaultInitStores :
         /\ vaultEntry = store.vault
         /\ legacy = store.legacy
    /\ InitLoad
    /\ InitCommands
    /\ InitSupervisorIdle
    /\ InitNoFunction

VaultNext ==
    \/ LoadStep
    \/ \E t \in VaultThreads : VaultStep(t)

\* the host started once, then commands called from the command-pool threads
VaultSpec == VaultInit /\ [][VaultNext]_vars

PoisonNext ==
    \/ LoadStep
    \/ \E t \in VaultThreads : VaultStep(t)
    \/ \E t \in VaultThreads : VaultPanic(t)

\* the steps of a command in progress on thread t
VaultProgress(t) ==
    \/ VaultRead(t)
    \/ VaultSave(t)
    \/ VaultCommit(t)

\* the commands with a thread that may panic under the guard; every thread
\* that can take a step of its command takes it in the end
PoisonSpec ==
    /\ VaultInit
    /\ [][PoisonNext]_vars
    /\ \A t \in VaultThreads : WF_vars(VaultProgress(t))

(***************************************************************************)
(* Claims about the vault commands.                                        *)
(***************************************************************************)
Key1 == SUPPORTED_SECRET_KEYS[1]
Key2 == SUPPORTED_SECRET_KEYS[2]

NoSavePending == \A t \in VaultThreads : vt[t].pc # "saved"

\* C4: when set_secret(K, V) returns Ok, a get_secret(K) that follows returns
\* V trimmed if that is not empty, and absent if it is empty, the cache and
\* the consolidated entry then being what delete_secret(K) makes them; and
\* get_secret(K) returns what the cache holds for K.
C4_SetThenGet ==
    [][\A t \in VaultThreads :
        /\ (vt[t].pc = "saved" /\ vt[t].op = "set_secret" /\ vt'[t].pc = "done") =>
              LET k == vt[t].key
                  v == Trim(vt[t].val)
                  deleted == Proposed("delete_secret", k, <<>>, secrets)
              IN /\ vt'[t].ret = "ok"
                 /\ GetSecret(secrets', k) =
                        [ret |-> "ok", got |-> IF v # <<>> THEN Some(v) ELSE None]
                 /\ v = <<>> =>
                        secrets' = deleted /\ ParseVault(vaultEntry') = Some(deleted)
        /\ (vt[t].pc = "locking" /\ vt[t].op = "get_secret" /\ vt'[t].pc = "done") =>
              [ret |-> vt'[t].ret, got |-> vt'[t].got] = GetSecret(secrets, vt[t].key)
      ]_vars

\* set_secret(Key2, " a ") returned Ok and get_secret(Key2) returned "a"
C4_Witness ==
    \E t, u \in VaultThreads :
        /\ vt[t].pc = "done" /\ vt[t].op = "set_secret" /\ vt[t].ret = "ok"
        /\ vt[t].key = Key2 /\ vt[t].val = <<" ", "a", " ">>
        /\ vt[u].pc = "done" /\ vt[u].op = "get_secret" /\ vt[u].ret = "ok"
        /\ vt[u].key = Key2 /\ vt[u].got = Some(<<"a">>)

\* C5: get_secret, set_secret and delete_secret with a key outside the
\* allowlist return an error and change neither the cache nor the credential
\* store; the call never comes to the lock of the cache.
C5_UnsupportedKeyRejected ==
    /\ [](\A t \in VaultThreads :
            (vt[t].op \in {"get_secret", "set_secret", "delete_secret"}
                /\ ~IsSupportedKey(vt[t].key))
            => vt[t].pc = "done" /\ vt[t].ret = "err_key" /\ vaultLock # t)
    /\ [][\A t \in VaultThreads :
            (vt'[t] # vt[t] /\ vt'[t].op # "get_all_secrets"
                /\ ~IsSupportedKey(vt'[t].key))
            => /\ vt'[t].ret = "err_key"
               /\ UNCHANGED <<secrets, vaultEntry, legacy, vaultLock>>
       ]_vars

\* delete_secret with a key outside the allowlist was rejected while
\* another thread held the lock of the cache
C5_Witness ==
    \E t, u \in VaultThreads :
        /\ vt[t].pc = "done" /\ vt[t].op = "delete_secret"
        /\ vt[t].key = UnsupportedKey /\ vt[t].ret = "err_key"
        /\ vaultLock = u /\ u # t /\ vt[u].pc = "saved"

\* C6: when the write of the consolidated entry fails in set_secret or
\* delete_secret the call returns the error and the cache is what it was.
C6_FailedSaveLeavesCache ==
    [][\A t \in VaultThreads :
        (vt[t].pc = "locking" /\ vt[t].op \in Mutators /\ vt'[t].pc = "done")
        => /\ vt'[t].ret = "err_save"
           /\ secrets' = secrets
           /\ vaultLock' = vaultLock
      ]_vars

\* set_secret(Key2, "aa") returned the error of save_vault and Key2 is not
\* in the cache
C6_Witness ==
    \E t \in VaultThreads :
        /\ vt[t].pc = "done" /\ vt[t].op = "set_secret" /\ vt[t].ret = "err_save"
        /\ vt[t].key = Key2 /\ vt[t].val = <<"a", "a">>
        /\ Key2 \notin DOMAIN secrets

\* C7: once a set_secret or delete_secret has returned Ok, and while no
\* other is between its write and its return, the consolidated entry parses
\* to exactly the cache, whatever the store held when it was loaded.
C7_PersistedIsCache ==
    (lpc = "done" /\ commits /\ NoSavePending)
        => ParseVault(vaultEntry) = Some(secrets)

\* a successful mutation on a vault loaded from an entry that held a key
\* outside the allowlist and an untrimmed value
C7_Witness ==
    /\ lpc = "done" /\ commits /\ NoSavePending
    /\ ParseVault(boot.vault) # None
    /\ UnsupportedKey \in DOMAIN Unwrap(ParseVault(boot.vault))
    /\ ParseVault(boot.vault) # Some(FilterLoaded(Unwrap(ParseVault(boot.vault))))
    /\ Key1 \in DOMAIN secrets /\ Key2 \in DOMAIN secrets
    /\ ParseVault(vaultEntry) = Some(secrets)

\* C8: the cache is at every moment the vault of the calls that returned Ok
\* applied one after the other (no update is lost and no intermediate map
\* is seen), the consolidated entry holds that vault when no call is between
\* its write and its return, and at most one call is there, holding the lock.
C8_Linearized ==
    lpc = "done" =>
        /\ secrets = linear
        /\ (commits /\ NoSavePending) => ParseVault(vaultEntry) = Some(linear)
        /\ \A t, u \in VaultThreads :
              (vt[t].pc = "saved" /\ vt[u].pc = "saved") => t = u
        /\ \A t \in VaultThreads : (vt[t].pc = "saved") = (vaultLock = t)
        /\ NoSavePending => vaultLock = 0

\* two set_secret calls on different keys, both returned Ok, both keys in
\* the cache and in the consolidated entry
C8_Witness ==
    \E t, u \in VaultThreads :
        /\ vt[t].pc = "done" /\ vt[t].op = "set_secret" /\ vt[t].ret = "ok"
        /\ vt[u].pc = "done" /\ vt[u].op = "set_secret" /\ vt[u].ret = "ok"
        /\ vt[t].key = Key1 /\ vt[u].key = Key2
        /\ Trim(vt[t].val) # <<>> /\ Trim(vt[u].val) # <<>>
        /\ MapGet(secrets, Key1) = Some(Trim(vt[t].val))
        /\ MapGet(secrets, Key2) = Some(Trim(vt[u].val))
        /\ ParseVault(vaultEntry) = Some(secrets)

(***************************************************************************)
(* Claims about load_from_keychain.                                        *)
(***************************************************************************)
AllLegacyAbsent(leg) == \A k \in SupportedKeySet : leg[k] = None

\* only per-key entries exist: no consolidated entry, at least one per-key entry
OnlyLegacy(store) ==
    /\ store.vault = EntryAbsent
    /\ ~AllLegacyAbsent(store.legacy)

\* C9: during the migration no per-key entry is deleted unless the
\* consolidated entry has been written first, and then it holds the merged
\* map; a load that did not write the consolidated entry leaves every per-key
\* entry as it found it; whether the deletes succeed or fail, the map load
\* returns is the merged map.
C9_DeleteOnlyAfterWrite ==
    /\ [](\A i \in DOMAIN hist :
            ~hist[i].wrote => hist[i].legacy = hist[i].before.legacy)
    /\ [][/\ legacy' # legacy =>
                /\ wrote
                /\ ParseVault(vaultEntry) = Some(acc)
                /\ vaultEntry' = vaultEntry
          /\ lpc = "delete_legacy" =>
                /\ acc' = acc
                /\ (lpc' = "done" => secrets' = acc)]_vars

\* a migration that wrote the consolidated entry, deleted one per-key entry
\* and failed to delete another, and returned both keys
C9_Witness ==
    /\ lpc = "done"
    /\ wrote
    /\ "delete" \in ioFailed
    /\ \E k1, k2 \in DOMAIN secrets : legacy[k1] = None /\ legacy[k2] # None

LegacySecret(entry) ==
    IF entry # None /\ Trim(Unwrap(entry)) # <<>> THEN Some(Trim(Unwrap(entry))) ELSE None

\* the consolidated entry holds the value under the key
VaultHolds(entry, k, v) ==
    ParseVault(entry) # None /\ MapGet(Unwrap(ParseVault(entry)), k) = Some(v)

\* C29: load deletes a per-key entry that holds a secret only if the
\* consolidated entry it has just written holds that secret under the key;
\* so every secret a per-key entry held before a load is, after the load, in
\* the consolidated entry or still in its per-key entry, also when the read
\* of that entry failed while other keys were migrated.
C29_MigrationKeepsSecrets ==
    /\ [](\A i \in DOMAIN hist : \A k \in SupportedKeySet :
            LegacySecret(hist[i].before.legacy[k]) # None =>
                \/ VaultHolds(hist[i].vault, k, Unwrap(LegacySecret(hist[i].before.legacy[k])))
                \/ hist[i].legacy[k] = hist[i].before.legacy[k])
    /\ [][\A k \in SupportedKeySet :
            (LegacySecret(legacy[k]) # None /\ legacy'[k] # legacy[k]) =>
                /\ wrote
                /\ VaultHolds(vaultEntry', k, Unwrap(LegacySecret(legacy[k])))]_vars

\* a command of thread t is in progress
InCommand(t) == vt[t].pc \in {"locking", "saved"}

\* C27: once the lock of the cache is poisoned it stays so and is free;
\* get_all_secrets returns the cache, which is the vault of the calls that
\* returned Ok; get_secret, set_secret and delete_secret return an error and
\* change neither the cache nor the consolidated entry; and every command
\* in progress returns.
C27_PoisonRecoverable ==
    /\ [](poisoned => vaultLock = 0 /\ secrets = linear)
    /\ [][poisoned =>
            /\ poisoned'
            /\ secrets' = secrets
            /\ vaultEntry' = vaultEntry
            /\ \A t \in VaultThreads :
                  (vt[t].pc = "locking" /\ vt'[t].pc # "locking")
                     => /\ vt'[t].pc = "done"
                        /\ IF vt[t].op = "get_all_secrets"
                           THEN vt'[t].ret = "ok" /\ vt'[t].all = secrets
                           ELSE vt'[t].ret = "err_lock" /\ vt'[t].got = None]_vars
    /\ \A t \in VaultThreads : InCommand(t) ~> ~InCommand(t)

\* set_secret panicked under the guard; a get_all_secrets that followed
\* returned the cache and a get_secret was refused
C27_Witness ==
    /\ poisoned
    /\ secrets # EmptyMap
    /\ \E t, u \in VaultThreads :
          /\ vt[t].pc = "done" /\ vt[t].op = "get_all_secrets"
          /\ vt[t].ret = "ok" /\ vt[t].all = secrets
          /\ vt[u].pc = "done" /\ vt[u].op = "set_secret" /\ vt[u].ret = "panic"

\* C20: in every reachable state, whichever way the vault was loaded and
\* whatever set_secret and delete_secret calls were made, every key of the
\* cache is in the allowlist and every value is non-empty and trimmed.
C20_VaultWellFormed ==
    \A k \in DOMAIN secrets :
        /\ IsSupportedKey(k)
        /\ secrets[k] # <<>>
        /\ Trim(secrets[k]) = secrets[k]

\* a consolidated entry with an untrimmed value and a key outside the
\* allowlist was loaded, then set_secret was called with an untrimmed value
C20_Witness ==
    /\ lpc = "done"
    /\ ParseVault(boot.vault) # None
    /\ UnsupportedKey \in DOMAIN Unwrap(ParseVault(boot.vault))
    /\ \E t \in VaultThreads :
          /\ vt[t].pc = "done" /\ vt[t].op = "set_secret" /\ vt[t].ret = "ok"
          /\ vt[t].key = Key2 /\ vt[t].val = <<" ", "a", " ">>
    /\ secrets = [k \in SupportedKeySet |->
                    IF k = Key1 THEN <<"a", "a">> ELSE <<"a">>]

\* the load took the migration path: the consolidated entry was absent,
\* could not be read, or did not parse
Migrated(h) ==
    VaultAccount \in h.failed \/ ParseVault(h.before.vault) = None

\* the per-key entries that are present, were read, and are not blank, trimmed
ReadableLegacy(h) ==
    LET leg == h.before.legacy
        keep == {k \in SupportedKeySet :
                    leg[k] # None /\ k \notin h.failed /\ Trim(Unwrap(leg[k])) # <<>>}
    IN [k \in keep |-> Trim(Unwrap(leg[k]))]

\* C11: load never fails: whatever credential-store call fails, a load that
\* has not returned can take its next step, and a load that found the
\* consolidated entry absent, unreadable or unparsable returns the vault of
\* the present per-key entries with a non-empty trimmed value, a key whose
\* read failed being absent (failed writes and deletes change nothing of it).
C11_LoadNeverFails ==
    /\ lpc # "done" => ENABLED LoadStep
    /\ \A i \in 1..Len(hist) :
          /\ Migrated(hist[i]) => hist[i].map = ReadableLegacy(hist[i])
          /\ ~Migrated(hist[i])
                => hist[i].map = FilterLoaded(Unwrap(ParseVault(hist[i].before.vault)))

\* a migration in which the read of one per-key entry failed, another entry
\* was returned, and the write of the consolidated entry failed
C11_Witness ==
    /\ lpc = "done"
    /\ Len(hist) = 1
    /\ Migrated(hist[1])
    /\ "write" \in hist[1].failed
    /\ \E k1, k2 \in SupportedKeySet :
          /\ k1 \in hist[1].failed
          /\ hist[1].before.legacy[k1] # None
          /\ k2 \in DOMAIN hist[1].map
          /\ secrets = hist[1].map

(***************************************************************************)
(* runtime-prefs.json: a JSON object, read leniently and written through   *)
(* runtime-prefs.json.tmp.                                                 *)
(***************************************************************************)
\* Value::Bool(b)
JsonBool(b) == [t |-> IF b THEN "true" ELSE "false", s |-> <<>>]

\* Value::as_bool
AsBool(v) == IF v.t \in {"true", "false"} THEN Some(v.t = "true") ELSE None

RECURSIVE ObjectToMap(_)
ObjectToMap(ms) ==
    IF ms = <<>> THEN EmptyMap
    ELSE LET last == ms[Len(ms)]
         IN MapInsert(ObjectToMap(SubSeq(ms, 1, Len(ms) - 1)), last[1], last[2])

\* read_runtime_prefs: the object in the file, or an empty map
read_runtime_prefs(file) ==
    IF file.kind = "object" THEN ObjectToMap(file.members) ELSE EmptyMap

\* the keys a preference file holds in the model, in the order Map keeps them
PrefKeys == <<"localFirst", "theme">>

\* serde_json::to_string_pretty(&Value::Object(prefs))
SerializePrefs(prefs) ==
    LET keys == SelectSeq(PrefKeys, LAMBDA k : k \in DOMAIN prefs)
    IN EntryObject([i \in 1..Len(keys) |-> <<keys[i], prefs[keys[i]]>>])

\* prefs.get("localFirst").and_then(|v| v.as_bool()).unwrap_or(false)
LocalFirstOf(prefs) ==
    LET v == MapGet(prefs, "localFirst")
    IN IF v = None \/ AsBool(Unwrap(v)) = None THEN FALSE
       ELSE Unwrap(AsBool(Unwrap(v)))

\* get_local_first_mode
get_local_first_mode == LocalFirstOf(read_runtime_prefs(prefsFile))

(***************************************************************************)
(* The sidecar supervisor.                                                 *)
(***************************************************************************)
\* Duration::from_secs(2) of graceful_kill, in milliseconds
GRACE_MS == 2000
\* Duration::from_millis(100) of graceful_kill
POLL_MS == 100

\* what generate_local_token may return
TokenValues == {"token_a", "token_b"}

SupOps == {"start", "stop", "set_local_first"}

FirstPc(op) ==
    CASE op \in {"start", "setup"} -> "s_enter"
      [] op \in {"stop", "exit_requested", "exit"} -> "k_enter"
      [] op = "set_local_first" -> "p_tmp"

\* the call returns r
SupReturn(t, r) == [st[t] EXCEPT !.pc = "done", !.ret = r]

\* stop_local_api returns: to its caller, or into the start_local_api call of
\* set_local_first_mode
AfterStop(t) ==
    LET r == [st[t] EXCEPT !.child = 0, !.elapsed = 0]
    IN IF st[t].op = "set_local_first" THEN [r EXCEPT !.pc = "s_enter"]
       ELSE [r EXCEPT !.pc = "done", !.ret = "ok"]

\* a command-pool thread, setup or the run-event handler makes a call
SupCall(t) ==
    /\ st[t].pc \in {"idle", "done"}
    /\ scalls < MaxSupCalls
    /\ scalls' = scalls + 1
    /\ \E op \in SupOps, arg \in BOOLEAN :
         /\ op # "set_local_first" => arg = FALSE
         /\ st' = [st EXCEPT ![t] = [IdleCall EXCEPT !.pc = FirstPc(op), !.op = op, !.arg = arg]]
    /\ UNCHANGED <<apiVars, fileVars, vaultVars, fnVars>>

\* the length of the text of a JSON value, and of a file
ValueLen(v) ==
    CASE v.t = "true" -> 4
      [] v.t = "false" -> 5
      [] v.t = "string" -> Len(v.s) + 2
      [] OTHER -> 1

RECURSIVE MembersLen(_)
MembersLen(ms) ==
    IF ms = <<>> THEN 0
    ELSE 1 + ValueLen(ms[Len(ms)][2]) + MembersLen(SubSeq(ms, 1, Len(ms) - 1))

TextLen(file) == 2 + MembersLen(file.members)

\* write_all of the text buf from offset 0 of an open file holding cur: the
\* text replaces what it covers, and what is longer stays behind it
WriteOver(cur, buf) ==
    CASE cur.kind = "empty" -> {buf}
      [] cur.kind = "object" -> IF TextLen(cur) <= TextLen(buf) THEN {buf} ELSE {EntryGarbage}
      [] OTHER -> {buf, EntryGarbage}

\* the file thread t has open for writing becomes new
WriteOpenFile(t, new) ==
    CASE st[t].fd = "tmp" -> tmpFile' = new /\ UNCHANGED prefsFile
      [] st[t].fd = "prefs" -> prefsFile' = new /\ UNCHANGED tmpFile
      [] OTHER -> UNCHANGED fileVars

\* the file thread t has open for writing
OpenFile(t) ==
    CASE st[t].fd = "tmp" -> tmpFile
      [] st[t].fd = "prefs" -> prefsFile
      [] OTHER -> EntryEmpty

\* the call of thread t is through with write_runtime_prefs
PrefsDone(r) == [r EXCEPT !.buf = EntryAbsent, !.fd = "none"]

\* set_local_first_mode writing the flag into a new map
PrefOpenTmpFresh(t) ==
    /\ st[t].pc = "p_tmp"
    /\ LET prefs == MapInsert(EmptyMap, "localFirst", JsonBool(st[t].arg))
       IN \/ /\ tmpFile' = EntryEmpty
             /\ st' = [st EXCEPT ![t].pc = "p_write", ![t].buf = SerializePrefs(prefs),
                                 ![t].fd = "tmp"]
          \/ /\ tmpFile' = tmpFile
             /\ st' = [st EXCEPT ![t] = SupReturn(t, "err")]
    /\ UNCHANGED <<apiVars, prefsFile, scalls, vaultVars, fnVars>>

\* set_local_first_mode up to the File::create of fs::write in
\* write_runtime_prefs: the file is read, "localFirst" inserted, the map
\* serialized, and the tmp path created or, if it exists, truncated
PrefOpenTmp(t) ==
    /\ st[t].pc = "p_tmp"
    /\ LET prefs == MapInsert(read_runtime_prefs(prefsFile), "localFirst", JsonBool(st[t].arg))
       IN \/ /\ tmpFile' = EntryEmpty
             /\ st' = [st EXCEPT ![t].pc = "p_write", ![t].buf = SerializePrefs(prefs),
                                 ![t].fd = "tmp"]
          \/ /\ tmpFile' = tmpFile
             /\ st' = [st EXCEPT ![t] = SupReturn(t, "err")]
    /\ UNCHANGED <<apiVars, prefsFile, scalls, vaultVars, fnVars>>

\* write_all of fs::write: the text goes into the file that was opened,
\* wherever a rename has moved it; a failed write may have written a part
PrefWriteTmp(t) ==
    /\ st[t].pc = "p_write"
    /\ \/ /\ \E new \in WriteOver(OpenFile(t), st[t].buf) : WriteOpenFile(t, new)
          /\ st' = [st EXCEPT ![t] = PrefsDone([st[t] EXCEPT !.pc = "p_rename"])]
       \/ /\ \E new \in {OpenFile(t), EntryGarbage} : WriteOpenFile(t, new)
          /\ st' = [st EXCEPT ![t] = PrefsDone(SupReturn(t, "err"))]
    /\ UNCHANGED <<apiVars, scalls, vaultVars, fnVars>>

\* fs::rename moves the file at the tmp path to the target: the threads that
\* have it open keep it open
Renamed(t, pc) ==
    [v \in DOMAIN st |->
        IF v = t THEN [st[t] EXCEPT !.pc = pc]
        ELSE IF st[v].fd = "tmp" THEN [st[v] EXCEPT !.fd = "prefs"]
        ELSE IF st[v].fd = "prefs" THEN [st[v] EXCEPT !.fd = "gone"]
        ELSE st[v]]

\* fs::rename of write_runtime_prefs; on Ok set_local_first_mode goes on to
\* stop_local_api, on Err it returns
PrefRename(t) ==
    /\ st[t].pc = "p_rename"
    /\ \/ /\ tmpFile.kind # "absent"
          /\ prefsFile' = tmpFile
          /\ tmpFile' = EntryAbsent
          /\ st' = Renamed(t, "k_enter")
       \/ /\ st' = [st EXCEPT ![t] = SupReturn(t, "err")]
          /\ UNCHANGED fileVars
    /\ UNCHANGED <<apiVars, scalls, vaultVars, fnVars>>

\* the signal sig reaches child c
Signal(c, sig) == [procs EXCEPT ![c].sig = sig]

\* StopEnter with the guard dropped before graceful_kill
StopEnterReleases(t) ==
    /\ st[t].pc = "k_enter"
    /\ childLock = 0
    /\ IF slot = None
       THEN /\ st' = [st EXCEPT ![t] = AfterStop(t)]
            /\ UNCHANGED <<slot, procs>>
       ELSE /\ slot' = None
            /\ procs' = IF unix THEN Signal(Unwrap(slot), "term") ELSE procs
            /\ st' = [st EXCEPT ![t].child = Unwrap(slot), ![t].elapsed = 0,
                                ![t].pc = IF unix THEN "k_poll" ELSE "k_force"]
    /\ UNCHANGED <<childLock, token, unix, fileVars, scalls, vaultVars, fnVars>>

\* stop_local_api: the lock is taken and the slot emptied; with a child taken
\* the guard stays held and graceful_kill starts (SIGTERM under cfg(unix))
StopEnter(t) ==
    /\ st[t].pc = "k_enter"
    /\ childLock = 0
    /\ IF slot = None
       THEN /\ st' = [st EXCEPT ![t] = AfterStop(t)]
            /\ UNCHANGED <<childLock, slot, procs>>
       ELSE /\ childLock' = t
            /\ slot' = None
            /\ procs' = IF unix THEN Signal(Unwrap(slot), "term") ELSE procs
            /\ st' = [st EXCEPT ![t].child = Unwrap(slot), ![t].elapsed = 0,
                                ![t].pc = IF unix THEN "k_poll" ELSE "k_force"]
    /\ UNCHANGED <<token, unix, fileVars, scalls, vaultVars, fnVars>>

\* graceful_kill with no grace: a child found running is killed at once
StopPollNoGrace(t) ==
    /\ st[t].pc = "k_poll"
    /\ LET c == st[t].child
       IN IF procs[c].st = "exited"
          THEN /\ procs' = [procs EXCEPT ![c].st = "reaped"]
               /\ childLock' = 0
               /\ st' = [st EXCEPT ![t] = AfterStop(t)]
          ELSE /\ st' = [st EXCEPT ![t].pc = "k_force"]
               /\ UNCHANGED <<childLock, procs>>
    /\ UNCHANGED <<slot, token, unix, fileVars, scalls, vaultVars, fnVars>>

\* one turn of the loop of graceful_kill: try_wait reaps an exited child and
\* stop_local_api returns; a running child is slept on until the deadline
StopPoll(t) ==
    /\ st[t].pc = "k_poll"
    /\ LET c == st[t].child
       IN IF procs[c].st = "exited"
          THEN /\ procs' = [procs EXCEPT ![c].st = "reaped"]
               /\ childLock' = 0
               /\ st' = [st EXCEPT ![t] = AfterStop(t)]
          ELSE /\ st' = IF st[t].elapsed < GRACE_MS
                        THEN [st EXCEPT ![t].elapsed = @ + POLL_MS]
                        ELSE [st EXCEPT ![t].pc = "k_force"]
               /\ UNCHANGED <<childLock, procs>>
    /\ UNCHANGED <<slot, token, unix, fileVars, scalls, vaultVars, fnVars>>

\* stop_local_api returning with the guard of state.child never dropped
StopForceKeepsLock(t) ==
    /\ st[t].pc = "k_force"
    /\ LET c == st[t].child
       IN procs' = [procs EXCEPT ![c].st = "reaped", ![c].sig = "kill"]
    /\ st' = [st EXCEPT ![t] = AfterStop(t)]
    /\ UNCHANGED <<childLock, slot, token, unix, fileVars, scalls, vaultVars, fnVars>>

\* graceful_kill ending on child.kill() without child.wait()
StopForceNoWait(t) ==
    /\ st[t].pc = "k_force"
    /\ LET c == st[t].child
       IN procs' = [procs EXCEPT ![c].sig = "kill"]
    /\ childLock' = 0
    /\ st' = [st EXCEPT ![t] = AfterStop(t)]
    /\ UNCHANGED <<slot, token, unix, fileVars, scalls, vaultVars, fnVars>>

\* child.kill() and child.wait() at the end of graceful_kill, and the return
\* of stop_local_api
StopForce(t) ==
    /\ st[t].pc = "k_force"
    /\ LET c == st[t].child
       IN procs' = [procs EXCEPT ![c].st = "reaped", ![c].sig = "kill"]
    /\ childLock' = 0
    /\ st' = [st EXCEPT ![t] = AfterStop(t)]
    /\ UNCHANGED <<slot, token, unix, fileVars, scalls, vaultVars, fnVars>>

\* the sidecar exits: on SIGTERM, or by itself
ChildExit ==
    /\ \E c \in DOMAIN procs :
         /\ procs[c].st = "running"
         /\ procs' = [procs EXCEPT ![c].st = "exited"]
    /\ UNCHANGED <<childLock, slot, token, unix, fileVars, st, scalls, vaultVars, fnVars>>

\* start_local_api without the slot.is_some() return
StartEnterNoCheck(t) ==
    /\ st[t].pc = "s_enter"
    /\ childLock = 0
    /\ \/ /\ childLock' = t
          /\ st' = [st EXCEPT ![t].pc = "s_token"]
       \/ /\ st' = [st EXCEPT ![t] = SupReturn(t, "err")]
          /\ UNCHANGED childLock
    /\ UNCHANGED <<slot, token, procs, unix, fileVars, scalls, vaultVars, fnVars>>

\* start_local_api going on to spawn when the child in the slot has exited
StartEnterSkipsDead(t) ==
    /\ st[t].pc = "s_enter"
    /\ childLock = 0
    /\ IF slot # None /\ procs[Unwrap(slot)].st = "running"
       THEN /\ st' = [st EXCEPT ![t] = SupReturn(t, "ok")]
            /\ UNCHANGED childLock
       ELSE \/ /\ childLock' = t
               /\ st' = [st EXCEPT ![t].pc = "s_token"]
            \/ /\ st' = [st EXCEPT ![t] = SupReturn(t, "err")]
               /\ UNCHANGED childLock
    /\ UNCHANGED <<slot, token, procs, unix, fileVars, scalls, vaultVars, fnVars>>

\* start_local_api up to the token: the lock is taken; with a child in the
\* slot the call returns Ok; a missing script, no node binary or a log file
\* that cannot be opened return Err
StartEnter(t) ==
    /\ st[t].pc = "s_enter"
    /\ childLock = 0
    /\ IF slot # None
       THEN /\ st' = [st EXCEPT ![t] = SupReturn(t, "ok")]
            /\ UNCHANGED childLock
       ELSE \/ /\ childLock' = t
               /\ st' = [st EXCEPT ![t].pc = "s_token"]
            \/ /\ st' = [st EXCEPT ![t] = SupReturn(t, "err")]
               /\ UNCHANGED childLock
    /\ UNCHANGED <<slot, token, procs, unix, fileVars, scalls, vaultVars, fnVars>>

\* start_local_api generating a token on every call
StartTokenRegenerates(t) ==
    /\ st[t].pc = "s_token"
    /\ \E tok \in TokenValues : token' = Some(tok)
    /\ st' = [st EXCEPT ![t].pc = "s_spawn"]
    /\ UNCHANGED <<childLock, slot, procs, unix, fileVars, scalls, vaultVars, fnVars>>

\* start_local_api: the token slot is filled if it is empty
StartToken(t) ==
    /\ st[t].pc = "s_token"
    /\ \E tok \in TokenValues :
         token' = IF token = None THEN Some(tok) ELSE token
    /\ st' = [st EXCEPT ![t].pc = "s_spawn"]
    /\ UNCHANGED <<childLock, slot, procs, unix, fileVars, scalls, vaultVars, fnVars>>

LOCAL_API_PORT == <<"46123">>
LOCAL_API_MODE == <<"tauri-sidecar">>
FORENSICS_WORKER_URL == <<"http://127.0.0.1:46123">>

\* the variables start_local_api sets before the secrets, and after them
EarlyEnvNames ==
    {"LOCAL_API_PORT", "LOCAL_API_RESOURCE_DIR", "LOCAL_API_MODE", "LOCAL_API_TOKEN"}
LateEnvNames ==
    {"LOCAL_API_LOCAL_FIRST", "FORENSICS_WORKER_URL", "FORENSICS_WORKER_SHARED_SECRET"}

\* Command::env called for each entry of over on a Command holding base: a
\* name set again takes the new value
EnvOverlay(base, over) ==
    [n \in DOMAIN base \cup DOMAIN over |-> IF n \in DOMAIN over THEN over[n] ELSE base[n]]

\* CommandEnv passing the first of the cached secrets only
CommandEnvOneSecret(tok, passed, local_first) ==
    LET early == [n \in EarlyEnvNames |->
                    CASE n = "LOCAL_API_PORT" -> LOCAL_API_PORT
                      [] n = "LOCAL_API_RESOURCE_DIR" -> <<"resource_dir">>
                      [] n = "LOCAL_API_MODE" -> LOCAL_API_MODE
                      [] OTHER -> <<tok>>]
        first == IF DOMAIN passed = {} THEN {}
                 ELSE {CHOOSE k \in DOMAIN passed : \A j \in DOMAIN passed \ {k} :
                          \E i \in 1..NKeys : SUPPORTED_SECRET_KEYS[i] = k
                             /\ \A h \in 1..i : SUPPORTED_SECRET_KEYS[h] # j}
        late == [n \in LateEnvNames |->
                    CASE n = "LOCAL_API_LOCAL_FIRST" ->
                            IF local_first THEN <<"true">> ELSE <<"false">>
                      [] n = "FORENSICS_WORKER_URL" -> FORENSICS_WORKER_URL
                      [] OTHER -> <<tok>>]
    IN EnvOverlay(EnvOverlay(early, [k \in first |-> passed[k]]), late)

\* lines 1073-1114: the variables the Command holds at spawn(), set in the
\* order of the code
CommandEnv(tok, passed, local_first) ==
    LET early == [n \in EarlyEnvNames |->
                    CASE n = "LOCAL_API_PORT" -> LOCAL_API_PORT
                      [] n = "LOCAL_API_RESOURCE_DIR" -> <<"resource_dir">>
                      [] n = "LOCAL_API_MODE" -> LOCAL_API_MODE
                      [] OTHER -> <<tok>>]
        late == [n \in LateEnvNames |->
                    CASE n = "LOCAL_API_LOCAL_FIRST" ->
                            IF local_first THEN <<"true">> ELSE <<"false">>
                      [] n = "FORENSICS_WORKER_URL" -> FORENSICS_WORKER_URL
                      [] OTHER -> <<tok>>]
    IN EnvOverlay(EnvOverlay(early, passed), late)

\* the environment start_local_api gives the sidecar; lines 1087-1092: the
\* cached secrets are passed if the lock of the cache is not poisoned
SidecarEnv ==
    LET passed == IF poisoned THEN EmptyMap ELSE secrets
    IN [token |-> Unwrap(token),
        secrets |-> passed,
        localFirst |-> get_local_first_mode,
        vars |-> CommandEnv(Unwrap(token), passed, get_local_first_mode)]

\* StartSpawn recording a handle also when the spawn failed
StartSpawnRecordsFailure(t) ==
    /\ st[t].pc = "s_spawn"
    /\ LockFree(vaultLock)
    /\ \/ /\ procs' = Append(procs, [st |-> "running", sig |-> "none", env |-> SidecarEnv])
          /\ slot' = Some(Len(procs) + 1)
          /\ st' = [st EXCEPT ![t] = [SupReturn(t, "ok") EXCEPT !.spawned = TRUE,
                                                                 !.child = Len(procs) + 1]]
       \/ /\ procs' = Append(procs, [st |-> "reaped", sig |-> "none", env |-> SidecarEnv])
          /\ slot' = Some(Len(procs) + 1)
          /\ st' = [st EXCEPT ![t] = SupReturn(t, "err")]
    /\ childLock' = 0
    /\ UNCHANGED <<token, unix, fileVars, scalls, vaultVars, fnVars>>

\* start_local_api from the command to its return: the cached secrets and the
\* preference are read, the sidecar spawned and put in the slot; a failed
\* spawn returns Err
StartSpawn(t) ==
    /\ st[t].pc = "s_spawn"
    /\ LockFree(vaultLock)
    /\ \/ /\ procs' = Append(procs, [st |-> "running", sig |-> "none", env |-> SidecarEnv])
          /\ slot' = Some(Len(procs) + 1)
          /\ st' = [st EXCEPT ![t] = [SupReturn(t, "ok") EXCEPT !.spawned = TRUE,
                                                                 !.child = Len(procs) + 1]]
       \/ /\ st' = [st EXCEPT ![t] = SupReturn(t, "err")]
          /\ UNCHANGED <<slot, procs>>
    /\ childLock' = 0
    /\ UNCHANGED <<token, unix, fileVars, scalls, vaultVars, fnVars>>

SupStep(t) ==
    \/ SupCall(t)
    \/ PrefOpenTmp(t)
    \/ PrefWriteTmp(t)
    \/ PrefRename(t)
    \/ StopEnter(t)
    \/ StopPoll(t)
    \/ StopForce(t)
    \/ StartEnter(t)
    \/ StartToken(t)
    \/ StartSpawn(t)

\* the preference files the supervisor is checked on
InitPrefsFiles ==
    {EntryAbsent,
     EntryObject(<<<<"localFirst", JsonBool(TRUE)>>, <<"theme", JsonStr(<<"a">>)>>>>)}

\* the vault is loaded and no vault command runs
LoadedVault ==
    /\ secrets = [k \in {SUPPORTED_SECRET_KEYS[1]} |-> <<"a">>]
    /\ linear = secrets
    /\ vaultEntry \in SerializeVault(secrets)
    /\ legacy = [k \in SupportedKeySet |-> None]
    /\ lpc = "done"
    /\ lidx = 1
    /\ acc = EmptyMap
    /\ loads = 1
    /\ ioFailed = {}
    /\ boot = [vault |-> vaultEntry, legacy |-> legacy]
    /\ wrote = FALSE
    /\ hist = <<>>

SupInit ==
    /\ LoadedVault
    /\ InitCommands
    /\ InitLocalApi
    /\ unix \in BOOLEAN
    /\ prefsFile \in InitPrefsFiles
    /\ tmpFile = EntryAbsent
    /\ InitNoFunction

SupNext ==
    \/ \E t \in SupThreads : SupStep(t)
    \/ ChildExit

\* the supervisor calls of MaxSupCalls calls on NSupThreads threads
SupervisorSpec == SupInit /\ [][SupNext]_vars

(***************************************************************************)
(* Claims on the supervisor.                                               *)
(***************************************************************************)
\* the sidecars spawned and not yet reaped
Alive == {c \in DOMAIN procs : procs[c].st # "reaped"}

SupReturned(t, op, ret) == st[t].pc = "done" /\ st[t].op = op /\ st[t].ret = ret

\* C1: under every interleaving of start_local_api, stop_local_api and
\* set_local_first_mode calls made by concurrent threads, at most one sidecar
\* is spawned and not yet reaped.
C1_AtMostOneAlive == Cardinality(Alive) <= 1

\* a thread started a sidecar, another thread's set_local_first_mode stopped
\* it and started the next one: the first is reaped, the second runs
C1_Witness ==
    /\ Len(procs) = 2
    /\ procs[1].st = "reaped"
    /\ procs[2].st = "running"
    /\ \E t, u \in SupThreads :
         /\ t # u
         /\ SupReturned(t, "start", "ok") /\ st[t].spawned
         /\ SupReturned(u, "set_local_first", "ok") /\ st[u].spawned

\* C2: a start_local_api call that finds a child in the slot returns Ok,
\* spawns nothing, and leaves that child in the slot.
C2_SecondStartNoOp ==
    [][\A t \in SupThreads :
         (st[t].pc = "s_enter" /\ st'[t] # st[t] /\ slot # None)
         => /\ st'[t].pc = "done"
            /\ st'[t].ret = "ok"
            /\ ~st'[t].spawned
            /\ slot' = slot
            /\ procs' = procs
            /\ token' = token]_vars

\* two start_local_api calls returned Ok with no stop between them: one
\* spawned the child that is in the slot, the other spawned nothing
C2_Witness ==
    /\ Len(procs) = 1
    /\ \E t, u \in SupThreads :
         /\ SupReturned(t, "start", "ok") /\ st[t].spawned
         /\ slot = Some(st[t].child)
         /\ SupReturned(u, "start", "ok") /\ ~st[u].spawned

\* C3: once the token is set, no step of start_local_api (failed or not),
\* stop_local_api or set_local_first_mode changes or clears it; so it is
\* generated at most once.
C3_TokenStable == [][token # None => token' = token]_vars

\* set_local_first_mode restarted the sidecar: the stopped child and the new
\* one were given the token that is still in the slot
C3_Witness ==
    /\ token # None
    /\ Len(procs) = 2
    /\ procs[1].st = "reaped"
    /\ procs[1].env.token = Unwrap(token)
    /\ procs[2].env.token = Unwrap(token)
    /\ \E t \in SupThreads : SupReturned(t, "set_local_first", "ok")

\* thread t is in graceful_kill
Killing(t) == st[t].pc \in {"k_poll", "k_force"}

SupProgress(t) ==
    \/ PrefOpenTmp(t)
    \/ PrefWriteTmp(t)
    \/ PrefRename(t)
    \/ StopEnter(t)
    \/ StopPoll(t)
    \/ StopForce(t)
    \/ StartEnter(t)
    \/ StartToken(t)
    \/ StartSpawn(t)

\* the supervisor calls, every thread that can take a step of its call
\* taking it in the end
SupervisorFairSpec ==
    SupervisorSpec /\ \A t \in SupThreads : WF_vars(SupProgress(t))

\* thread t is in stop_local_api
InStop(t) == st[t].pc \in {"k_enter", "k_poll", "k_force"}

InStart(t) == st[t].pc \in {"s_enter", "s_token", "s_spawn"}

\* C22: a start_local_api that returns Err leaves the slot empty and spawns
\* nothing; the slot is filled only in the step that spawned the helper; a
\* start_local_api that finds the slot empty never returns Ok without
\* spawning, and can go on to spawn.
C22_FailedStartLeavesStopped ==
    /\ [](\A t \in SupThreads :
            (st[t].pc = "s_enter" /\ slot = None /\ childLock = 0)
                => ENABLED (StartEnter(t) /\ st'[t].pc = "s_token"))
    /\ [][\A t \in SupThreads :
            /\ (InStart(t) /\ st'[t].pc = "done" /\ st'[t].ret = "err")
                  => /\ slot = None /\ slot' = None
                     /\ procs' = procs
                     /\ ~st'[t].spawned
            /\ (InStart(t) /\ st'[t].pc = "done" /\ st'[t].ret = "ok" /\ slot = None)
                  => /\ st[t].pc = "s_spawn"
                     /\ st'[t].spawned
            /\ (slot = None /\ slot' # None /\ st'[t] # st[t])
                  => /\ st[t].pc = "s_spawn"
                     /\ st'[t].ret = "ok"
                     /\ procs' = Append(procs, procs'[Len(procs')])
                     /\ procs'[Len(procs')].st = "running"
                     /\ slot' = Some(Len(procs'))]_vars

\* a start_local_api failed with the token already generated, and the
\* start_local_api of another thread then spawned the helper
C22_Witness ==
    /\ token # None
    /\ Len(procs) = 1
    /\ slot = Some(1)
    /\ \E t, u \in SupThreads :
          /\ SupReturned(t, "start", "err")
          /\ SupReturned(u, "start", "ok") /\ st[u].spawned

\* the child in the slot has exited and nobody has waited for it
DeadChildRecorded == slot # None /\ procs[Unwrap(slot)].st = "exited"

\* C30: the slot is emptied only by stop_local_api (called by itself or by
\* set_local_first_mode), which takes the child out; a helper is spawned only
\* with the slot empty; so while a helper that exited by itself is in the
\* slot, it stays there, every start_local_api returns Ok without spawning,
\* and no helper is running.
C30_DeadChildStaysRecorded ==
    /\ [](DeadChildRecorded => \A c \in DOMAIN procs : procs[c].st # "running")
    /\ [][/\ (slot # None /\ slot' # slot) =>
                /\ slot' = None
                /\ \E t \in SupThreads :
                      /\ st[t].pc = "k_enter"
                      /\ st[t].op \in {"stop", "set_local_first"}
                      /\ st'[t].child = Unwrap(slot)
          /\ Len(procs') > Len(procs) => slot = None
          /\ \A t \in SupThreads :
                (DeadChildRecorded /\ st[t].pc = "s_enter" /\ st'[t] # st[t])
                => /\ st'[t].pc = "done"
                   /\ st'[t].ret = "ok"
                   /\ ~st'[t].spawned
                   /\ slot' = slot
                   /\ procs' = procs]_vars

\* a helper was started, exited without a signal and is still in the slot; a
\* second start_local_api returned Ok without spawning
C30_Witness ==
    /\ DeadChildRecorded
    /\ Len(procs) = 1
    /\ procs[1].sig = "none"
    /\ \E t, u \in SupThreads :
         /\ SupReturned(t, "start", "ok") /\ st[t].spawned
         /\ SupReturned(u, "start", "ok") /\ ~st[u].spawned

\* C25: at every moment, whatever set_local_first_mode calls run together
\* through the same tmp path, the preferences file is absent as at the start
\* or holds a complete text: never an empty or partly written one.
C25_NeverPartial == prefsFile.kind \in {"absent", "object"}

\* the one calling thread of the sequential specifications
Caller == 1

\* of the supervisor operations, start_local_api and stop_local_api on one
\* thread, while another thread runs the vault commands
SidecarStep ==
    /\ SupStep(Caller)
    /\ st'[Caller].op \in {"start", "stop"}

SidecarNext ==
    \/ SidecarStep
    \/ VaultStep(Caller)
    \/ ChildExit

\* helpers started and stopped while the vault commands run
SidecarSpec == SupInit /\ [][SidecarNext]_vars

\* get_local_api_token returning an empty token when none is generated
get_local_api_token_or_default ==
    IF token = None THEN [ret |-> "ok", got |-> Some("")] ELSE [ret |-> "ok", got |-> token]

\* get_local_api_token: lines 172-179, the token is cloned under its lock
get_local_api_token ==
    IF token = None THEN [ret |-> "err", got |-> None] ELSE [ret |-> "ok", got |-> token]

\* the command get_local_api_token is called on thread t and returns; result
\* is what the last call returned
GetLocalApiToken(t) ==
    /\ st[t].pc \in {"idle", "done"}
    /\ scalls < MaxSupCalls
    /\ scalls' = scalls + 1
    /\ st' = [st EXCEPT ![t] = [IdleCall EXCEPT !.pc = "done", !.op = "get_token",
                                                !.ret = get_local_api_token.ret]]
    /\ result' = Some(get_local_api_token)
    /\ UNCHANGED <<args, apiVars, fileVars, vaultVars>>

TokenNext ==
    \/ \E t \in SupThreads : SupStep(t)
    \/ \E t \in SupThreads : GetLocalApiToken(t)
    \/ ChildExit

\* the supervisor calls with get_local_api_token among them
TokenSpec == SupInit /\ [][TokenNext]_vars

\* C31: the token is generated by a start_local_api call at its token step,
\* under the child lock, and is kept from then on, also when the spawn
\* fails; get_local_api_token returns Err exactly when no token has been
\* generated yet, and else Ok with the token, which is the token of every
\* later state; a child in the slot implies a token.
C31_TokenAvailability ==
    /\ [](slot # None => token # None)
    /\ [](\A r \in result : r.ret = "ok" => r.got = token)
    /\ [][/\ token' # token =>
                /\ token = None
                /\ \E t \in SupThreads :
                      /\ st[t].pc = "s_token" /\ st'[t].pc = "s_spawn"
                      /\ st[t].op \in {"start", "set_local_first"}
                      /\ childLock = t
          /\ \A t \in SupThreads :
                (st'[t] # st[t] /\ st'[t].op = "get_token") =>
                    /\ st'[t].pc = "done"
                    /\ token' = token
                    /\ token = None => st'[t].ret = "err" /\ result' = Some([ret |-> "err", got |-> None])
                    /\ token # None => st'[t].ret = "ok" /\ result' = Some([ret |-> "ok", got |-> token])]_vars

\* a start_local_api call generated the token and failed to spawn; no helper
\* has ever run, and get_local_api_token returned the token
C31_Witness ==
    /\ procs = <<>>
    /\ slot = None
    /\ token # None
    /\ result = Some([ret |-> "ok", got |-> token])
    /\ \E t, u \in SupThreads :
         /\ SupReturned(t, "start", "err")
         /\ SupReturned(u, "get_token", "ok")

(***************************************************************************)
(* All the commands together: the supervisor calls and the vault commands  *)
(* on their threads, with the locks of state.child and cache.secrets; the  *)
(* lock of state.token is taken and dropped within one step.               *)
(***************************************************************************)
\* the commands called in one run, of both kinds
MaxCommands == MaxSupCalls

WithinCommands == scalls' + vcalls' <= MaxCommands

\* the vault commands are called on one key with one value: what they lock
\* does not depend on the key or the value once the key is an allowed one
OneSecret(t) ==
    /\ vt'[t].key \in {"", SUPPORTED_SECRET_KEYS[1]}
    /\ vt'[t].val \in {<<>>, <<"a", "a">>}

CommandsNext ==
    \/ \E t \in SupThreads : SupStep(t) /\ WithinCommands
    \/ \E t \in SupThreads : GetLocalApiToken(t) /\ WithinCommands
    \/ \E t \in VaultThreads : VaultStep(t) /\ WithinCommands /\ OneSecret(t)
    \/ ChildExit

\* every thread that can take a step of its call takes it in the end
CommandsSpec ==
    /\ SupInit
    /\ [][CommandsNext]_vars
    /\ \A t \in SupThreads : WF_vars(SupProgress(t))
    /\ \A t \in VaultThreads : WF_vars(VaultProgress(t))

\* a supervisor call of thread t is in progress
InSupCall(t) == st[t].pc \notin {"idle", "done"}

\* C32: the locks are taken in the order child, token, secrets, and never
\* again by the thread that holds them: the child lock is taken free on
\* entering start_local_api or stop_local_api and released by its holder;
\* the token is generated, and the secrets are read for the helper, by the
\* thread that holds the child lock, the secrets with their lock free; a
\* vault command takes the lock of the secrets free and touches neither the
\* child lock nor the token.  So every call that was made returns.
C32_NoDeadlock ==
    /\ [][/\ \A t \in SupThreads :
                /\ (childLock' = t /\ childLock # t) =>
                       /\ childLock = 0
                       /\ st[t].pc \in {"s_enter", "k_enter"}
                       /\ vaultLock' = vaultLock
                /\ (childLock = t /\ childLock' # t) =>
                       /\ childLock' = 0
                       /\ st'[t] # st[t]
                /\ (st[t].pc = "s_token" /\ st'[t] # st[t]) =>
                       /\ childLock = t /\ childLock' = t
                       /\ vaultLock' = vaultLock
                /\ (st[t].pc = "s_spawn" /\ st'[t] # st[t]) =>
                       /\ childLock = t
                       /\ vaultLock = 0 /\ vaultLock' = 0
          /\ \A t \in VaultThreads :
                /\ vt'[t] # vt[t] => childLock' = childLock /\ token' = token
                /\ (vaultLock' = t /\ vaultLock # t) => vaultLock = 0
                /\ (vaultLock = t /\ vaultLock' # t) => vaultLock' = 0 /\ vt'[t] # vt[t]]_vars
    /\ \A t \in SupThreads : InSupCall(t) ~> st[t].pc = "done"
    /\ \A t \in VaultThreads : InCommand(t) ~> vt[t].pc = "done"

\* start_local_api holds the child lock and waits for the lock of the
\* secrets, which a set_secret or delete_secret command holds
C32_Witness ==
    \E t \in SupThreads, u \in VaultThreads :
        /\ st[t].pc = "s_spawn"
        /\ childLock = t
        /\ vaultLock = u
        /\ vt[u].pc = "saved"

\* the 25 names of SUPPORTED_SECRET_KEYS in the source
AllSupportedSecretKeys ==
    {"GROQ_API_KEY", "OPENROUTER_API_KEY", "FRED_API_KEY", "EIA_API_KEY",
     "CLOUDFLARE_API_TOKEN", "ACLED_ACCESS_TOKEN", "URLHAUS_AUTH_KEY", "OTX_API_KEY",
     "ABUSEIPDB_API_KEY", "WINGBITS_API_KEY", "WS_RELAY_URL", "VITE_OPENSKY_RELAY_URL",
     "OPENSKY_CLIENT_ID", "OPENSKY_CLIENT_SECRET", "AISSTREAM_API_KEY",
     "VITE_WS_RELAY_URL", "FINNHUB_API_KEY", "NASA_FIRMS_API_KEY", "OLLAMA_API_URL",
     "OLLAMA_MODEL", "WORLDMONITOR_API_KEY", "PORTCAST_API_KEY",
     "GLOBAL_FISHING_WATCH_API_KEY", "ELECTRICITY_MAPS_API_KEY", "LIVEUAMAP_API_KEY"}

Quiescent == \A t \in SupThreads : st[t].pc \in {"idle", "done"}

\* the calls made are set_local_first_mode calls, one per calling thread
OnlySetCalls ==
    /\ \A t \in SupThreads : st[t].op \in {"none", "set_local_first"}
    /\ scalls = Cardinality({t \in SupThreads : st[t].op # "none"})

\* C13: whenever no supervisor call is in progress, for any interleaving of
\* set_local_first_mode calls, the helper in the slot was spawned with the
\* local-first flag that the preferences file holds, and there is a helper
\* after set_local_first_mode calls that all returned Ok.
C13_RestartConsistent ==
    Quiescent
        => /\ slot # None
                => procs[Unwrap(slot)].env.localFirst = get_local_first_mode
           /\ (OnlySetCalls /\ scalls > 0
                  /\ \A t \in SupThreads : st[t].op # "none" => st[t].ret = "ok")
                => slot # None

(***************************************************************************)
(* The host from setup to its exit: main calls start_local_api in setup,   *)
(* stop_local_api on RunEvent::ExitRequested and RunEvent::Exit, and the   *)
(* process exits; commands run on the pool while the event loop runs.      *)
(***************************************************************************)
MainAt(op, pc) == st[MainThread].op = op /\ st[MainThread].pc = pc

MainCalls(op) ==
    st' = [st EXCEPT ![MainThread] = [IdleCall EXCEPT !.pc = FirstPc(op), !.op = op]]

\* the setup hook calls start_local_api
MainSetup ==
    /\ MainAt("none", "idle")
    /\ MainCalls("setup")
    /\ UNCHANGED <<apiVars, fileVars, scalls, vaultVars, fnVars>>

\* RunEvent::ExitRequested: the handler calls stop_local_api
MainExitRequested ==
    /\ MainAt("setup", "done")
    /\ MainCalls("exit_requested")
    /\ UNCHANGED <<apiVars, fileVars, scalls, vaultVars, fnVars>>

\* RunEvent::Exit: the handler calls stop_local_api
MainExit ==
    /\ MainAt("setup", "done") \/ MainAt("exit_requested", "done")
    /\ MainCalls("exit")
    /\ UNCHANGED <<apiVars, fileVars, scalls, vaultVars, fnVars>>

\* the handler of RunEvent::Exit has returned: the process exits
HostExit ==
    /\ MainAt("exit", "done")
    /\ st' = [st EXCEPT ![MainThread].pc = "exited"]
    /\ UNCHANGED <<apiVars, fileVars, scalls, vaultVars, fnVars>>

\* the steps of start_local_api and stop_local_api on the thread of main
MainStep ==
    \/ StartEnter(MainThread)
    \/ StartToken(MainThread)
    \/ StartSpawn(MainThread)
    \/ StopEnter(MainThread)
    \/ StopPoll(MainThread)
    \/ StopForce(MainThread)

\* the event loop runs: commands are served, and run until the process exits
HostServing ==
    /\ st[MainThread].op \in {"setup", "exit_requested", "exit"}
    /\ ~MainAt("setup", "s_enter") /\ ~MainAt("setup", "s_token") /\ ~MainAt("setup", "s_spawn")
    /\ st[MainThread].pc # "exited"

\* of the supervisor operations, set_local_first_mode is the one command
PoolStep(t) ==
    /\ HostServing
    /\ SupStep(t)
    /\ st'[t].op = "set_local_first"

HostInit == SupInit

HostNext ==
    \/ MainSetup
    \/ MainStep
    \/ MainExitRequested
    \/ MainExit
    \/ HostExit
    \/ \E t \in SupThreads : PoolStep(t)
    \/ ChildExit

\* one run of the host, with MaxSupCalls commands on NSupThreads pool threads
HostSpec == HostInit /\ [][HostNext]_vars

\* C14: once the handlers of ExitRequested and Exit have run and the process
\* exits, no helper is recorded in the slot and none is alive, also when
\* set_local_first_mode runs on the pool at that time.
C14_NoHelperAfterExit ==
    st[MainThread].pc = "exited" => slot = None /\ Alive = {}

(***************************************************************************)
(* The Linux WebKit environment policy: env_value_is_false,                *)
(* detect_linux_session, compute_linux_webkit_policy.                      *)
(***************************************************************************)
UpperCase == <<"A", "B", "C", "D", "E", "F", "G", "H", "I", "J", "K", "L", "M",
               "N", "O", "P", "Q", "R", "S", "T", "U", "V", "W", "X", "Y", "Z">>
LowerCase == <<"a", "b", "c", "d", "e", "f", "g", "h", "i", "j", "k", "l", "m",
               "n", "o", "p", "q", "r", "s", "t", "u", "v", "w", "x", "y", "z">>

\* u8::to_ascii_lowercase
LowerChar(c) ==
    IF \E i \in 1..Len(UpperCase) : UpperCase[i] = c
    THEN LowerCase[CHOOSE i \in 1..Len(UpperCase) : UpperCase[i] = c]
    ELSE c

\* str::to_ascii_lowercase
to_ascii_lowercase(s) == [i \in 1..Len(s) |-> LowerChar(s[i])]

WAYLAND == <<"w", "a", "y", "l", "a", "n", "d">>
X11 == <<"x", "1", "1">>
UNKNOWN == <<"u", "n", "k", "n", "o", "w", "n">>

\* the values env_value_is_false matches
FalseWords == {<<"0">>, <<"f", "a", "l", "s", "e">>, <<"o", "f", "f">>, <<"n", "o">>}

LINUX_WEBKIT_SAFE_MODE_ENV == "WM_LINUX_WEBKIT_SAFE_MODE"
WEBKIT_DMABUF_ENV == "WEBKIT_DISABLE_DMABUF_RENDERER"

\* env_value_is_false matching the value as it is written
EnvValueIsFalseCaseSensitive(value) == Trim(value) \in FalseWords

\* env_value_is_false
env_value_is_false(value) == to_ascii_lowercase(Trim(value)) \in FalseWords

\* xdg_session_type.map(str::trim).filter(|v| !v.is_empty()).map(str::to_ascii_lowercase)
Normalized(xdg_session_type) ==
    IF xdg_session_type = None \/ Trim(Unwrap(xdg_session_type)) = <<>>
    THEN None
    ELSE Some(to_ascii_lowercase(Trim(Unwrap(xdg_session_type))))

\* detect_linux_session testing for x11 before wayland
DetectSessionX11First(xdg_session_type, wayland_display, x11_display) ==
    LET normalized == Normalized(xdg_session_type)
    IN IF normalized = Some(X11) \/ x11_display # None THEN X11
       ELSE IF normalized = Some(WAYLAND) \/ wayland_display # None THEN WAYLAND
       ELSE IF normalized # None THEN Unwrap(normalized)
       ELSE UNKNOWN

\* detect_linux_session
detect_linux_session(xdg_session_type, wayland_display, x11_display) ==
    LET normalized == Normalized(xdg_session_type)
    IN IF normalized = Some(WAYLAND) \/ wayland_display # None THEN WAYLAND
       ELSE IF normalized = Some(X11) \/ x11_display # None THEN X11
       ELSE IF normalized # None THEN Unwrap(normalized)
       ELSE UNKNOWN

\* format!: the text with its placeholders, the constants and the values put in
Reason(fmt, names, values) == [fmt |-> fmt, names |-> names, values |-> values]

ReasonSession(session) ==
    Reason("session={session}; no automatic WebKit DMABUF override", <<>>, <<session>>)
ReasonSafeMode ==
    Reason("{} disabled automatic Wayland WebKit safeguards",
           <<LINUX_WEBKIT_SAFE_MODE_ENV>>, <<>>)
ReasonExisting(existing) ==
    Reason("{} already set to {existing}", <<WEBKIT_DMABUF_ENV>>, <<existing>>)
ReasonApplied ==
    Reason("Wayland detected with no {}; applying conservative WebKit renderer defaults",
           <<WEBKIT_DMABUF_ENV>>, <<>>)

\* compute_linux_webkit_policy for the session, safe mode and override found
Decide(session, safe_mode_enabled, existing_dmabuf_value) ==
    IF session # WAYLAND
    THEN [applied |-> FALSE, reason |-> ReasonSession(session)]
    ELSE IF ~safe_mode_enabled
    THEN [applied |-> FALSE, reason |-> ReasonSafeMode]
    ELSE IF existing_dmabuf_value # None
    THEN [applied |-> FALSE, reason |-> ReasonExisting(Unwrap(existing_dmabuf_value))]
    ELSE [applied |-> TRUE, reason |-> ReasonApplied]

\* compute_linux_webkit_policy looking at the existing override before safe mode
ComputePolicyExistingFirst(a) ==
    LET session == detect_linux_session(a.xdg_session_type, a.wayland_display,
                                        a.x11_display)
        safe_mode_enabled ==
            IF a.safe_mode_override = None THEN TRUE
            ELSE ~env_value_is_false(Unwrap(a.safe_mode_override))
        d == IF session = WAYLAND /\ a.existing_dmabuf_value # None
             THEN [applied |-> FALSE,
                   reason |-> ReasonExisting(Unwrap(a.existing_dmabuf_value))]
             ELSE Decide(session, safe_mode_enabled, a.existing_dmabuf_value)
    IN [session |-> session,
        xdg_session_type |-> a.xdg_session_type,
        wayland_display |-> a.wayland_display,
        x11_display |-> a.x11_display,
        safe_mode_enabled |-> safe_mode_enabled,
        existing_dmabuf_value |-> a.existing_dmabuf_value,
        applied_dmabuf_disable |-> d.applied,
        decision_reason |-> d.reason]

\* compute_linux_webkit_policy
compute_linux_webkit_policy(a) ==
    LET session == detect_linux_session(a.xdg_session_type, a.wayland_display,
                                        a.x11_display)
        safe_mode_enabled ==
            IF a.safe_mode_override = None THEN TRUE
            ELSE ~env_value_is_false(Unwrap(a.safe_mode_override))
        d == Decide(session, safe_mode_enabled, a.existing_dmabuf_value)
    IN [session |-> session,
        xdg_session_type |-> a.xdg_session_type,
        wayland_display |-> a.wayland_display,
        x11_display |-> a.x11_display,
        safe_mode_enabled |-> safe_mode_enabled,
        existing_dmabuf_value |-> a.existing_dmabuf_value,
        applied_dmabuf_disable |-> d.applied,
        decision_reason |-> d.reason]

\* the arguments compute_linux_webkit_policy is evaluated on
SessionTypes ==
    {None, Some(<<>>), Some(<<" ">>), Some(WAYLAND), Some(<<" ", "W", "a", "y", "l", "a", "n", "d", " ">>),
     Some(<<"W", "A", "Y", "L", "A", "N", "D">>), Some(X11), Some(<<"X", "1", "1", " ">>),
     Some(<<"t", "t", "y">>), Some(<<" ", "T", "t", "y">>), Some(UNKNOWN),
     Some(<<"w", "a", "y", " ", "l", "a", "n", "d">>)}
WaylandDisplays == {None, Some(<<>>), Some(<<"w", "a", "y", "l", "a", "n", "d", "-", "0">>)}
X11Displays == {None, Some(<<":", "0">>)}
SafeModeOverrides ==
    {None, Some(<<>>), Some(<<" ">>), Some(<<"0">>), Some(<<"f", "a", "l", "s", "e">>),
     Some(<<" ", "F", "A", "L", "S", "E", " ">>), Some(<<"O", "f", "f">>), Some(<<"n", "o">>),
     Some(<<"N", "O", " ">>), Some(<<"1">>), Some(<<"t", "r", "u", "e">>),
     Some(<<"n", " ", "o">>), Some(<<"o", "f">>), Some(<<"0", "0">>)}
ExistingValues == {None, Some(<<>>), Some(<<"0">>), Some(<<"1">>)}

PolicyArgs ==
    [xdg_session_type : SessionTypes, wayland_display : WaylandDisplays,
     x11_display : X11Displays, safe_mode_override : SafeModeOverrides,
     existing_dmabuf_value : ExistingValues]

\* nothing else of the program runs while a function is evaluated
InitStateless ==
    /\ LoadedVault
    /\ InitCommands
    /\ InitSupervisorIdle

PolicyInit ==
    /\ InitStateless
    /\ args \in PolicyArgs
    /\ result = NoResult

\* compute_linux_webkit_policy is called and returns
ComputePolicy ==
    /\ result = NoResult
    /\ result' = Some(compute_linux_webkit_policy(args))
    /\ UNCHANGED <<args, vaultVars, supVars>>

PolicyNext == ComputePolicy

PolicySpec == PolicyInit /\ [][PolicyNext]_vars

(***************************************************************************)
(* Claims on the environment policy.                                       *)
(***************************************************************************)
\* C15: applied_dmabuf_disable is true exactly when the detected session is
\* wayland, safe mode is enabled and no existing override value is present;
\* otherwise the reason names the first deciding factor: the session if it is
\* not wayland, else the safe-mode variable, else the override variable and
\* its value.
C15_PolicyDecision ==
    result # NoResult =>
        LET wayland == Unwrap(result).session = WAYLAND
            safe == Unwrap(result).safe_mode_enabled
            existing == args.existing_dmabuf_value
        IN /\ Unwrap(result).applied_dmabuf_disable <=> (wayland /\ safe /\ existing = None)
           /\ ~wayland => Unwrap(result).decision_reason = ReasonSession(Unwrap(result).session)
           /\ (wayland /\ ~safe) => Unwrap(result).decision_reason = ReasonSafeMode
           /\ (wayland /\ safe /\ existing # None)
                 => Unwrap(result).decision_reason = ReasonExisting(Unwrap(existing))
           /\ Unwrap(result).applied_dmabuf_disable => Unwrap(result).decision_reason = ReasonApplied

\* wayland, safe mode disabled and an override already set: no action, and
\* the reason is the safe-mode variable, not the override
C15_Witness ==
    /\ result # NoResult
    /\ Unwrap(result).session = WAYLAND
    /\ ~Unwrap(result).safe_mode_enabled
    /\ args.existing_dmabuf_value = Some(<<"1">>)
    /\ ~Unwrap(result).applied_dmabuf_disable
    /\ Unwrap(result).decision_reason = ReasonSafeMode

\* C16: safe mode is disabled exactly when the override is present and its
\* trimmed, lower-cased value is 0, false, off or no; an absent override, a
\* blank one and any other value leave it enabled.
C16_SafeModeDisabled ==
    result # NoResult =>
        LET v == args.safe_mode_override
        IN /\ ~Unwrap(result).safe_mode_enabled
                <=> (v # None /\ to_ascii_lowercase(Trim(Unwrap(v))) \in FalseWords)
           /\ (v = None \/ Trim(Unwrap(v)) = <<>>) => Unwrap(result).safe_mode_enabled

\* " FALSE " disabled safe mode
C16_Witness ==
    /\ result # NoResult
    /\ args.safe_mode_override = Some(<<" ", "F", "A", "L", "S", "E", " ">>)
    /\ ~Unwrap(result).safe_mode_enabled

\* C17: the session is wayland when the session type, trimmed and
\* lower-cased, is wayland or a Wayland display is present, even if the type
\* says x11; else x11 when the type is x11 or an X11 display is present; else
\* the trimmed lower-cased type if it is not empty; else unknown.  Classifying
\* the result again with no display gives the same result.
C17_SessionClassification ==
    result # NoResult =>
        LET t == args.xdg_session_type
            type == IF t = None THEN <<>> ELSE to_ascii_lowercase(Trim(Unwrap(t)))
            wl == type = WAYLAND \/ args.wayland_display # None
            x == type = X11 \/ args.x11_display # None
        IN /\ wl => Unwrap(result).session = WAYLAND
           /\ (~wl /\ x) => Unwrap(result).session = X11
           /\ (~wl /\ ~x /\ type # <<>>) => Unwrap(result).session = type
           /\ (~wl /\ ~x /\ type = <<>>) => Unwrap(result).session = UNKNOWN
           /\ detect_linux_session(Some(Unwrap(result).session), None, None) = Unwrap(result).session

\* the session type says x11, a Wayland display and an X11 display are
\* present: wayland
C17_Witness ==
    /\ result # NoResult
    /\ args.xdg_session_type = Some(<<"X", "1", "1", " ">>)
    /\ args.wayland_display # None
    /\ args.x11_display # None
    /\ Unwrap(result).session = WAYLAND

(***************************************************************************)
(* sanitize_path_for_node.  A path is a sequence of units; a unit that is  *)
(* not valid Unicode is INVALID_UNIT, which to_string_lossy replaces.      *)
(***************************************************************************)
INVALID_UNIT == "<invalid>"
REPLACEMENT_CHARACTER == "U+FFFD"

\* Path::to_string_lossy
to_string_lossy(path) ==
    [i \in 1..Len(path) |-> IF path[i] = INVALID_UNIT THEN REPLACEMENT_CHARACTER ELSE path[i]]

\* the prefix "\\?\UNC\" and the prefix "\\?\"
EXTENDED_UNC_PREFIX == <<"\\", "\\", "?", "\\", "U", "N", "C", "\\">>
EXTENDED_PREFIX == <<"\\", "\\", "?", "\\">>

StartsWith(str, prefix) ==
    Len(str) >= Len(prefix) /\ SubSeq(str, 1, Len(prefix)) = prefix

\* str::strip_prefix
strip_prefix(str, prefix) ==
    IF StartsWith(str, prefix) THEN Some(SubSeq(str, Len(prefix) + 1, Len(str))) ELSE None

\* sanitize_path_for_node testing for "\\?\" first
SanitizeExtendedFirst(path) ==
    LET str == to_string_lossy(path)
    IN IF strip_prefix(str, EXTENDED_PREFIX) # None
       THEN Unwrap(strip_prefix(str, EXTENDED_PREFIX))
       ELSE str

\* sanitize_path_for_node
sanitize_path_for_node(path) ==
    LET str == to_string_lossy(path)
    IN IF strip_prefix(str, EXTENDED_UNC_PREFIX) # None
       THEN <<"\\", "\\">> \o Unwrap(strip_prefix(str, EXTENDED_UNC_PREFIX))
       ELSE IF strip_prefix(str, EXTENDED_PREFIX) # None
       THEN Unwrap(strip_prefix(str, EXTENDED_PREFIX))
       ELSE str

\* the paths sanitize_path_for_node is evaluated on: a beginning and a rest
PathHeads ==
    {<<>>, EXTENDED_UNC_PREFIX, EXTENDED_PREFIX, <<"\\", "\\">>, <<"\\", "\\", "?">>,
     <<"U", "N", "C", "\\">>, <<"\\", "\\", "?", "\\", "u", "n", "c", "\\">>,
     <<"\\", "\\", "?", "\\", "U", "N", "C">>, <<"C", ":", "\\">>, <<"/">>}
PathRests ==
    {<<>>, <<"s">>, <<"s", "\\", "x">>, <<"C", ":", "\\", "x">>, <<INVALID_UNIT>>,
     <<"s", "\\", INVALID_UNIT, "x">>, EXTENDED_PREFIX \o <<"x">>,
     EXTENDED_UNC_PREFIX \o <<"s">>, <<"\\", "s">>}
SanitizeArgs == {h \o r : h \in PathHeads, r \in PathRests}

SanitizeInit ==
    /\ InitStateless
    /\ args \in SanitizeArgs
    /\ result = NoResult

\* sanitize_path_for_node is called and returns
Sanitize ==
    /\ result = NoResult
    /\ result' = Some(sanitize_path_for_node(args))
    /\ UNCHANGED <<args, vaultVars, supVars>>

SanitizeNext == Sanitize

SanitizeSpec == SanitizeInit /\ [][SanitizeNext]_vars

\* C18 as stated: the prefix "\\?\UNC\" of the path is replaced by "\\", any
\* other "\\?\" is removed, and a path without it is returned unchanged.
C18_AsStated ==
    result # NoResult =>
        IF StartsWith(args, EXTENDED_UNC_PREFIX)
        THEN Unwrap(result) = <<"\\", "\\">> \o SubSeq(args, Len(EXTENDED_UNC_PREFIX) + 1, Len(args))
        ELSE IF StartsWith(args, EXTENDED_PREFIX)
        THEN Unwrap(result) = SubSeq(args, Len(EXTENDED_PREFIX) + 1, Len(args))
        ELSE Unwrap(result) = args

\* C18 amended: the same of the lossy text of the path, in which every unit
\* that is not valid Unicode is the replacement character; the prefix is
\* removed once, and a path of valid Unicode without it is returned unchanged.
C18_SanitizePath ==
    result # NoResult =>
        LET str == to_string_lossy(args)
        IN /\ StartsWith(str, EXTENDED_UNC_PREFIX)
                => /\ Unwrap(result) = <<"\\", "\\">> \o SubSeq(str, Len(EXTENDED_UNC_PREFIX) + 1, Len(str))
                   /\ ~StartsWith(Unwrap(result), <<"U", "N", "C">>)
           /\ (StartsWith(str, EXTENDED_PREFIX) /\ ~StartsWith(str, EXTENDED_UNC_PREFIX))
                => Unwrap(result) = SubSeq(str, Len(EXTENDED_PREFIX) + 1, Len(str))
           /\ ~StartsWith(str, EXTENDED_PREFIX) => Unwrap(result) = str
           /\ (~StartsWith(args, EXTENDED_PREFIX) /\ str = args) => Unwrap(result) = args

\* "\\?\UNC\s\x" became "\\s\x"
C18_Witness ==
    /\ args = EXTENDED_UNC_PREFIX \o <<"s", "\\", "x">>
    /\ result = Some(<<"\\", "\\", "s", "\\", "x">>)

(***************************************************************************)
(* apply_linux_webkit_env_policy on the environment of the process         *)
(* (target_os = "linux").                                                  *)
(***************************************************************************)
XDG_SESSION_TYPE == "XDG_SESSION_TYPE"
WAYLAND_DISPLAY == "WAYLAND_DISPLAY"
DISPLAY == "DISPLAY"
WEBKIT_DISABLE_SANDBOX == "WEBKIT_DISABLE_SANDBOX_THIS_IS_DANGEROUS"
GST_PLUGIN_BLACKLIST == "GST_PLUGIN_BLACKLIST"

\* the variables removed at lines 481-490
GstPathVars ==
    <<"GST_PLUGIN_PATH", "GST_PLUGIN_PATH_1_0", "GST_PLUGIN_SCANNER",
      "GST_PLUGIN_SCANNER_1_0", "GST_REGISTRY_1_0", "GST_PLUGIN_SYSTEM_PATH_1_0",
      "GST_PTP_HELPER_1_0", "GST_REGISTRY_REUSE_PLUGIN_SCANNER">>

GstPathVarSet == {GstPathVars[i] : i \in 1..Len(GstPathVars)}

EnvNames ==
    {XDG_SESSION_TYPE, WAYLAND_DISPLAY, DISPLAY, LINUX_WEBKIT_SAFE_MODE_ENV,
     WEBKIT_DMABUF_ENV, WEBKIT_DISABLE_SANDBOX, GST_PLUGIN_BLACKLIST} \cup GstPathVarSet

ONE == <<"1">>
ONNX == <<"o", "n", "n", "x">>

\* env::var(name).ok(): None for a variable that is not set or whose value is
\* not valid Unicode
env_var(environ, name) ==
    IF environ[name] = None THEN None
    ELSE IF \E i \in 1..Len(Unwrap(environ[name])) : Unwrap(environ[name])[i] = INVALID_UNIT
    THEN None
    ELSE environ[name]

\* read_trimmed_env_var
read_trimmed_env_var(environ, name) ==
    LET value == env_var(environ, name)
    IN IF value = None \/ Trim(Unwrap(value)) = <<>> THEN None
       ELSE Some(Trim(Unwrap(value)))

\* env::set_var
set_var(environ, name, value) == [environ EXCEPT ![name] = Some(value)]

\* env::remove_var of each variable of names
remove_vars(environ, names) ==
    [n \in DOMAIN environ |-> IF n \in names THEN None ELSE environ[n]]

\* apply_linux_webkit_env_policy: the policy returned and the environment left
apply_linux_webkit_env_policy(environ) ==
    LET policy == compute_linux_webkit_policy(
                     [xdg_session_type |-> read_trimmed_env_var(environ, XDG_SESSION_TYPE),
                      wayland_display |-> read_trimmed_env_var(environ, WAYLAND_DISPLAY),
                      x11_display |-> read_trimmed_env_var(environ, DISPLAY),
                      safe_mode_override |->
                          read_trimmed_env_var(environ, LINUX_WEBKIT_SAFE_MODE_ENV),
                      existing_dmabuf_value |->
                          read_trimmed_env_var(environ, WEBKIT_DMABUF_ENV)])
        e1 == IF policy.applied_dmabuf_disable
              THEN set_var(environ, WEBKIT_DMABUF_ENV, ONE) ELSE environ
        e2 == IF policy.safe_mode_enabled /\ policy.session = WAYLAND
              THEN set_var(e1, WEBKIT_DISABLE_SANDBOX, ONE) ELSE e1
        e3 == IF policy.safe_mode_enabled
              THEN remove_vars(e2, GstPathVarSet) ELSE e2
    IN [policy |-> policy, environ |-> set_var(e3, GST_PLUGIN_BLACKLIST, ONNX)]

\* the environments the host is started in
GstSettings ==
    {[n \in GstPathVarSet |-> None],
     [n \in GstPathVarSet |-> Some(<<"p">>)],
     [n \in GstPathVarSet |-> IF n = GstPathVars[1] THEN Some(<<"p">>) ELSE None],
     [n \in GstPathVarSet |-> IF n = GstPathVars[Len(GstPathVars)] THEN Some(<<"p">>) ELSE None]}

Environments ==
    {[n \in EnvNames |->
        CASE n = XDG_SESSION_TYPE -> x
          [] n = WAYLAND_DISPLAY -> w
          [] n = DISPLAY -> d
          [] n = LINUX_WEBKIT_SAFE_MODE_ENV -> s
          [] n = WEBKIT_DMABUF_ENV -> r
          [] n = WEBKIT_DISABLE_SANDBOX -> b
          [] n = GST_PLUGIN_BLACKLIST -> k
          [] OTHER -> g[n]] :
        x \in {None, Some(<<" ", "W", "a", "y", "l", "a", "n", "d", " ">>), Some(X11), Some(<<>>)},
        w \in {None, Some(<<"w", "a", "y", "l", "a", "n", "d", "-", "0">>)},
        d \in {None, Some(<<":", "0">>)},
        s \in {None, Some(<<>>), Some(<<"0">>), Some(<<" ", "O", "f", "f", " ">>), Some(ONE)},
        r \in {None, Some(<<>>), Some(<<" ">>), Some(<<"0">>), Some(ONE), Some(<<INVALID_UNIT>>)},
        b \in {None, Some(<<"0">>)},
        k \in {None, Some(<<"p">>)},
        g \in GstSettings}

EnvInit ==
    /\ InitStateless
    /\ args \in Environments
    /\ result = NoResult

\* main calls apply_linux_webkit_env_policy
ApplyPolicy ==
    /\ result = NoResult
    /\ result' = Some(apply_linux_webkit_env_policy(args))
    /\ UNCHANGED <<args, vaultVars, supVars>>

EnvNext == ApplyPolicy

EnvSpec == EnvInit /\ [][EnvNext]_vars

\* C23: after a live run, the sandbox variable was set exactly when safe mode
\* is enabled and the session is wayland, every GStreamer path variable is
\* unset, and the plugin blacklist is onnx.
C23_LiveSideEffects ==
    result # NoResult =>
        LET policy == Unwrap(result).policy
            after == Unwrap(result).environ
        IN /\ IF policy.safe_mode_enabled /\ policy.session = WAYLAND
              THEN after[WEBKIT_DISABLE_SANDBOX] = Some(ONE)
              ELSE after[WEBKIT_DISABLE_SANDBOX] = args[WEBKIT_DISABLE_SANDBOX]
           /\ \A n \in GstPathVarSet : after[n] = None
           /\ after[GST_PLUGIN_BLACKLIST] = Some(ONNX)

\* C24: after a live run, a renderer override that was set has the value it
\* had, and the variable was changed only if it was not set at all.
C24_OverridePreserved ==
    result # NoResult =>
        LET after == Unwrap(result).environ
        IN /\ args[WEBKIT_DMABUF_ENV] # None
                => after[WEBKIT_DMABUF_ENV] = args[WEBKIT_DMABUF_ENV]
           /\ after[WEBKIT_DMABUF_ENV] # args[WEBKIT_DMABUF_ENV]
                => /\ args[WEBKIT_DMABUF_ENV] = None
                   /\ after[WEBKIT_DMABUF_ENV] = Some(ONE)

(***************************************************************************)
(* set_local_first_mode called again and again by one caller, on the       *)
(* preference files a host may find.                                       *)
(***************************************************************************)
PrefsInitFiles ==
    {EntryAbsent, EntryGarbage, EntryObject(<<>>),
     EntryObject(<<<<"theme", JsonStr(<<"a">>)>>>>),
     EntryObject(<<<<"localFirst", JsonBool(TRUE)>>, <<"theme", JsonStr(<<"a">>)>>>>),
     EntryObject(<<<<"theme", JsonNum>>, <<"localFirst", JsonStr(<<"a">>)>>>>)}

PrefsInit ==
    /\ LoadedVault
    /\ InitCommands
    /\ InitLocalApi
    /\ InitNoFunction
    /\ unix \in BOOLEAN
    /\ prefsFile \in PrefsInitFiles
    /\ tmpFile = EntryAbsent

\* a step of a set_local_first_mode call of the caller
PrefsStep ==
    /\ SupStep(Caller)
    /\ st'[Caller].op = "set_local_first"

PrefsNext ==
    \/ PrefsStep
    \/ ChildExit

PrefsSpec == PrefsInit /\ [][PrefsNext]_vars

\* the keys of the preferences file other than localFirst, with their values
OtherPrefs(file) ==
    LET prefs == read_runtime_prefs(file)
    IN [k \in DOMAIN prefs \ {"localFirst"} |-> prefs[k]]

DigitChars == <<"0", "1", "2", "3", "4", "5", "6", "7", "8", "9">>
HexChars == DigitChars \o <<"a", "b", "c", "d", "e", "f">>

CharSet(s) == {s[i] : i \in 1..Len(s)}

IsAsciiAlpha(c) == c \in CharSet(UpperCase) \cup CharSet(LowerCase)
IsAsciiDigit(c) == c \in CharSet(DigitChars)

\* the value of a digit of base 16 or less
DigitValue(c) == (CHOOSE i \in 1..Len(HexChars) : HexChars[i] = c) - 1

\* the position of the first character of s that is in cs, Len(s) + 1 if none
FirstOf(s, cs) ==
    IF \E i \in 1..Len(s) : s[i] \in cs
    THEN CHOOSE i \in 1..Len(s) : s[i] \in cs /\ \A j \in 1..(i - 1) : s[j] \notin cs
    ELSE Len(s) + 1

\* the position of the last character of s that is in cs, 0 if none
LastOf(s, cs) ==
    IF \E i \in 1..Len(s) : s[i] \in cs
    THEN CHOOSE i \in 1..Len(s) : s[i] \in cs /\ \A j \in (i + 1)..Len(s) : s[j] \notin cs
    ELSE 0

From(s, i) == SubSeq(s, i, Len(s))
Upto(s, i) == SubSeq(s, 1, i)

\* Parser::parse_url: leading and trailing spaces are dropped, tabs and
\* newlines are dropped wherever they are
CleanInput(s) == SelectSeq(Trim(s), LAMBDA c : c \notin {"\t", "\n"})

\* SchemeType::from: the schemes with an authority of the form // host
SpecialSchemes == {<<"h", "t", "t", "p">>, <<"h", "t", "t", "p", "s">>, <<"w", "s">>, <<"w", "s", "s">>, <<"f", "t", "p">>}

\* default_port
DefaultPort(scheme) ==
    CASE scheme = <<"h", "t", "t", "p">> -> 80
      [] scheme = <<"w", "s">> -> 80
      [] scheme = <<"h", "t", "t", "p", "s">> -> 443
      [] scheme = <<"w", "s", "s">> -> 443
      [] scheme = <<"f", "t", "p">> -> 21
      [] OTHER -> -1

\* Parser::parse_scheme: the length of the scheme, 0 if the input does not
\* begin with one
SchemeLen(s) ==
    LET n == FirstOf(s, {":"}) - 1
    IN IF /\ n >= 1
          /\ n < Len(s)
          /\ IsAsciiAlpha(s[1])
          /\ \A i \in 1..n : IsAsciiAlpha(s[i]) \/ IsAsciiDigit(s[i]) \/ s[i] \in {"+", "-", "."}
       THEN n ELSE 0

\* the number a string of digits of the base is
RECURSIVE ParseDigits(_, _)
ParseDigits(s, base) ==
    IF s = <<>> THEN 0
    ELSE ParseDigits(Upto(s, Len(s) - 1), base) * base + DigitValue(s[Len(s)])

AllDigitsOf(s, base) ==
    \A i \in 1..Len(s) : s[i] \in CharSet(HexChars) /\ DigitValue(s[i]) < base

\* host.rs parse_ipv4number: Some(number), None if the part is not a number
parse_ipv4number(part) ==
    LET hex == Len(part) >= 2 /\ part[1] = "0" /\ part[2] = "x"
        oct == ~hex /\ Len(part) >= 2 /\ part[1] = "0"
        digits == IF hex THEN From(part, 3) ELSE IF oct THEN From(part, 2) ELSE part
        base == IF hex THEN 16 ELSE IF oct THEN 8 ELSE 10
    IN IF part = <<>> THEN None
       ELSE IF AllDigitsOf(digits, base) THEN Some(ParseDigits(digits, base)) ELSE None

\* str::split('.')
RECURSIVE SplitDots(_)
SplitDots(s) ==
    LET i == FirstOf(s, {"."})
    IN IF i > Len(s) THEN <<s>> ELSE <<Upto(s, i - 1)>> \o SplitDots(From(s, i + 1))

\* the parts of a host between the dots, an empty last part dropped
HostParts(s) ==
    LET parts == SplitDots(s)
    IN IF Len(parts) > 1 /\ parts[Len(parts)] = <<>> THEN Upto(parts, Len(parts) - 1) ELSE parts

\* host.rs ends_in_a_number
ends_in_a_number(s) ==
    LET last == HostParts(s)[Len(HostParts(s))]
    IN \/ last # <<>> /\ \A i \in 1..Len(last) : IsAsciiDigit(last[i])
       \/ parse_ipv4number(last) # None

RECURSIVE Pow(_, _)
Pow(b, e) == IF e = 0 THEN 1 ELSE b * Pow(b, e - 1)

\* the decimal text of a number
RECURSIVE DecimalText(_)
DecimalText(n) ==
    IF n < 10 THEN <<DigitChars[n + 1]>>
    ELSE DecimalText(n \div 10) \o <<DigitChars[(n % 10) + 1]>>

\* Display of Ipv4Addr, an address being its four octets
Ipv4Text(a) ==
    DecimalText(a[1]) \o <<".">> \o DecimalText(a[2]) \o <<".">> \o DecimalText(a[3])
        \o <<".">> \o DecimalText(a[4])

\* host.rs parse_ipv4addr: Some(address), None for Err(InvalidIpv4Address);
\* the last part fills the octets the parts before it leave
parse_ipv4addr(s) ==
    LET parts == HostParts(s)
        n == Len(parts)
        num(i) == Unwrap(parse_ipv4number(parts[i]))
    IN IF n > 4 \/ \E i \in 1..n : parse_ipv4number(parts[i]) = None THEN None
       ELSE IF \E i \in 1..(n - 1) : num(i) > 255 THEN None
       ELSE IF num(n) \div Pow(256, 4 - n) > 255 THEN None
       ELSE Some([i \in 1..4 |->
                    IF i < n THEN num(i) ELSE (num(n) \div Pow(256, 4 - i)) % 256])

\* host.rs: the characters a domain cannot have
ForbiddenHostChars ==
    {" ", "#", "/", ":", "<", ">", "?", "@", "[", "\\", "]", "^", "|", "%"}

\* Host::parse: Some(text of the host), None for an error.  An address in
\* brackets is kept as it is written; no input here has a percent escape or
\* a character that is not ASCII.
Host_parse(input) ==
    IF input # <<>> /\ input[1] = "["
    THEN IF input[Len(input)] = "]" /\ Len(input) > 2 THEN Some(input) ELSE None
    ELSE LET domain == to_ascii_lowercase(input)
         IN IF domain = <<>> \/ CharSet(domain) \cap ForbiddenHostChars # {} THEN None
            ELSE IF ends_in_a_number(domain)
            THEN IF parse_ipv4addr(domain) = None THEN None
                 ELSE Some(Ipv4Text(Unwrap(parse_ipv4addr(domain))))
            ELSE Some(domain)

ParseError == [ok |-> FALSE]

\* Parser::parse_port: Some(text of the port kept in the URL), None for
\* Err(InvalidPort); the default port of the scheme is not kept
parse_port(scheme, s) ==
    IF \E i \in 1..Len(s) : ~IsAsciiDigit(s[i]) THEN None
    ELSE IF s = <<>> THEN Some(<<>>)
    ELSE IF Len(s) > 5 \/ ParseDigits(s, 10) > 65535 THEN None
    ELSE IF ParseDigits(s, 10) = DefaultPort(scheme) THEN Some(<<>>)
    ELSE Some(<<":">> \o DecimalText(ParseDigits(s, 10)))

\* Parser::parse_host on the text after the user info: where the host ends,
\* which is the first colon outside brackets
HostEnd(hp) ==
    IF hp # <<>> /\ hp[1] = "[" /\ "]" \in CharSet(hp)
    THEN FirstOf(hp, {"]"}) + FirstOf(From(hp, FirstOf(hp, {"]"}) + 1), {":"})
    ELSE FirstOf(hp, {":"})

\* Parser::after_double_slash for a special scheme: user info, host, port and
\* the rest; the slashes and backslashes after the colon are skipped
ParseSpecial(scheme, rest) ==
    LET skipped == IF \A i \in 1..Len(rest) : rest[i] \in {"/", "\\"} THEN <<>>
                   ELSE From(rest, CHOOSE i \in 1..Len(rest) :
                                /\ rest[i] \notin {"/", "\\"}
                                /\ \A j \in 1..(i - 1) : rest[j] \in {"/", "\\"})
        authEnd == FirstOf(skipped, {"/", "\\", "?", "#"})
        authority == Upto(skipped, authEnd - 1)
        tail == From(skipped, authEnd)
        at == LastOf(authority, {"@"})
        userinfo == Upto(authority, at)
        hostport == From(authority, at + 1)
        hostEnd == HostEnd(hostport)
        host == Host_parse(Upto(hostport, hostEnd - 1))
        port == parse_port(scheme, From(hostport, hostEnd + 1))
        path == IF tail = <<>> \/ tail[1] \in {"?", "#"} THEN <<"/">> \o tail
                ELSE <<"/">> \o From(tail, 2)
    IN IF host = None \/ port = None THEN ParseError
       ELSE [ok |-> TRUE, scheme |-> scheme, host |-> host,
             text |-> scheme \o <<":", "/", "/">>
                        \o (IF at > 1 THEN userinfo ELSE <<>>)
                        \o Unwrap(host) \o Unwrap(port) \o path]

\* Url::parse: a URL with its scheme(), host_str() and as_str(), or an error.
\* For a file URL and a scheme that is not special the host is not worked
\* out: open_url reads the host of an http URL only.
Url_parse(input) ==
    LET s == CleanInput(input)
        n == SchemeLen(s)
        scheme == to_ascii_lowercase(Upto(s, n))
    IN IF n = 0 THEN ParseError
       ELSE IF scheme \in SpecialSchemes THEN ParseSpecial(scheme, From(s, n + 2))
       ELSE [ok |-> TRUE, scheme |-> scheme, host |-> None,
             text |-> scheme \o From(s, n + 1)]

\* open_in_shell: the opener is spawned with the argument, or spawn() fails
open_in_shell(arg) ==
    {[ret |-> "ok", opened |-> Some(arg)], [ret |-> "err", opened |-> None]}

OpenUrlErr == {[ret |-> "err", opened |-> None]}

\* open_url taking any http host that begins with localhost or 127.0.0.1
open_url_host_prefix(url) ==
    LET parsed == Url_parse(url)
    IN IF ~parsed.ok THEN OpenUrlErr
       ELSE IF parsed.scheme = <<"h", "t", "t", "p", "s">> THEN open_in_shell(parsed.text)
       ELSE IF parsed.scheme = <<"h", "t", "t", "p">>
       THEN IF \/ StartsWith(Unwrap(parsed.host), <<"l", "o", "c", "a", "l", "h", "o", "s", "t">>)
               \/ StartsWith(Unwrap(parsed.host), <<"1", "2", "7", ".", "0", ".", "0", ".", "1">>)
            THEN open_in_shell(parsed.text)
            ELSE OpenUrlErr
       ELSE OpenUrlErr

\* open_url: the results it may return with what it opened
open_url(url) ==
    LET parsed == Url_parse(url)
    IN IF ~parsed.ok THEN OpenUrlErr
       ELSE IF parsed.scheme = <<"h", "t", "t", "p", "s">> THEN open_in_shell(parsed.text)
       ELSE IF parsed.scheme = <<"h", "t", "t", "p">>
       THEN IF parsed.host \in {Some(<<"l", "o", "c", "a", "l", "h", "o", "s", "t">>), Some(<<"1", "2", "7", ".", "0", ".", "0", ".", "1">>)}
            THEN open_in_shell(parsed.text)
            ELSE OpenUrlErr
       ELSE OpenUrlErr

\* the URLs open_url is called with: a scheme, what follows it, user info,
\* a host, a port and a rest
UrlSchemes ==
    {<<"h", "t", "t", "p", "s">>, <<"h", "t", "t", "p">>, <<"H", "T", "T", "P">>,
     <<" ", "h", "T", "T", "p", "s">>, <<"f", "t", "p">>,
     <<"j", "a", "v", "a", "s", "c", "r", "i", "p", "t">>, <<"f", "i", "l", "e">>, <<>>,
     <<"1", "h", "t", "t", "p">>, <<"h", "t", " ", "t", "p">>}
UrlSeparators ==
    {<<":", "/", "/">>, <<":">>, <<"/", "/">>, <<":", "/", "\\">>}
UrlUserInfos ==
    {<<>>, <<"l", "o", "c", "a", "l", "h", "o", "s", "t", "@">>, <<"u", ":", "p", "@">>}
UrlHosts ==
    {<<"l", "o", "c", "a", "l", "h", "o", "s", "t">>,
     <<"L", "O", "C", "A", "L", "H", "O", "S", "T">>,
     <<"l", "o", "c", "a", "l", "\t", "h", "o", "s", "t">>,
     <<"1", "2", "7", ".", "0", ".", "0", ".", "1">>, <<"1", "2", "7", ".", "1">>,
     <<"0", "x", "7", "f", ".", "0", ".", "0", ".", "1">>,
     <<"0", "1", "7", "7", "0", "0", "0", "0", "0", "0", "0", "1">>,
     <<"e", "v", "i", "l", ".", "c", "o", "m">>,
     <<"l", "o", "c", "a", "l", "h", "o", "s", "t", ".", "e", "v", "i", "l", ".", "c", "o", "m">>,
     <<"1", "2", "7", ".", "0", ".", "0", ".", "1", ".", "e", "v", "i", "l", ".", "c", "o", "m">>,
     <<"l", "o", "c", "a", "l", "h", "o", "s", "t", ".">>, <<"[", ":", ":", "1", "]">>,
     <<>>, <<"1", ".", "2", ".", "3", ".", "4", ".", "5">>,
     <<"2", "5", "6", ".", "0", ".", "0", ".", "1">>,
     <<"e", "x", "a", "^", "m", "p", "l", "e">>}
UrlPorts ==
    {<<>>, <<":", "8", "0", "8", "0">>, <<":", "8", "0">>, <<":", "x">>}
UrlRests ==
    {<<>>, <<"/", "p">>, <<"/", "@", "l", "o", "c", "a", "l", "h", "o", "s", "t">>,
     <<"#", "l", "o", "c", "a", "l", "h", "o", "s", "t">>,
     <<"?", "u", "=", "h", "t", "t", "p", ":", "/", "/", "l", "o", "c", "a", "l", "h", "o", "s", "t">>,
     <<"\\", "l", "o", "c", "a", "l", "h", "o", "s", "t">>}
UrlArgs ==
    {s \o sep \o u \o h \o p \o r :
        s \in UrlSchemes, sep \in UrlSeparators, u \in UrlUserInfos,
        h \in UrlHosts, p \in UrlPorts, r \in UrlRests}

OpenUrlInit ==
    /\ InitStateless
    /\ args \in UrlArgs
    /\ result = NoResult

\* open_url is called and returns
OpenUrl ==
    /\ result = NoResult
    /\ \E r \in open_url(args) : result' = Some(r)
    /\ UNCHANGED <<args, vaultVars, supVars>>

OpenUrlNext == OpenUrl

OpenUrlSpec == OpenUrlInit /\ [][OpenUrlNext]_vars

\* the URL scheme://host rest, written the plain way
PlainUrl(scheme, host, rest) == scheme \o <<":", "/", "/">> \o host \o rest

\* C28: open_url opens a URL only if its scheme is https, or its scheme is
\* http and its host is exactly localhost or 127.0.0.1; for every other
\* input (another scheme, http to another host, a text that does not parse)
\* it returns an error and opens nothing.  What it opens it returns Ok for.
\* For a URL written the plain way the scheme and the host are the ones
\* written.
C28_OpenUrlAllowlist ==
    result # NoResult =>
        LET r == Unwrap(result)
            parsed == Url_parse(args)
            allowed ==
                /\ parsed.ok
                /\ \/ parsed.scheme = <<"h", "t", "t", "p", "s">>
                   \/ /\ parsed.scheme = <<"h", "t", "t", "p">>
                      /\ parsed.host \in {Some(<<"l", "o", "c", "a", "l", "h", "o", "s", "t">>), Some(<<"1", "2", "7", ".", "0", ".", "0", ".", "1">>)}
        IN /\ r.opened # None => allowed /\ r.ret = "ok"
           /\ ~allowed => r.ret = "err" /\ r.opened = None
           /\ \A s \in {<<"h", "t", "t", "p">>, <<"h", "t", "t", "p", "s">>, <<"f", "t", "p">>, <<"j", "a", "v", "a", "s", "c", "r", "i", "p", "t">>},
                 h \in {<<"l", "o", "c", "a", "l", "h", "o", "s", "t">>, <<"1", "2", "7", ".", "0", ".", "0", ".", "1">>, <<"e", "v", "i", "l", ".", "c", "o", "m">>, <<"l", "o", "c", "a", "l", "h", "o", "s", "t", ".", "e", "v", "i", "l", ".", "c", "o", "m">>, <<"1", "2", "7", ".", "0", ".", "0", ".", "1", ".", "e", "v", "i", "l", ".", "c", "o", "m">>},
                 rest \in UrlRests :
                    args = PlainUrl(s, h, rest) =>
                        /\ allowed <=> (s = <<"h", "t", "t", "p", "s">> \/ (s = <<"h", "t", "t", "p">> /\ h \in {<<"l", "o", "c", "a", "l", "h", "o", "s", "t">>, <<"1", "2", "7", ".", "0", ".", "0", ".", "1">>}))
                        /\ ~allowed => r.opened = None

\* http://localhost@evil.com was refused, and so was http://localhost.evil.com;
\* these exist as inputs and open_url returned an error for this one of them
C28_Witness ==
    /\ result # NoResult
    /\ args \in {PlainUrl(<<"h", "t", "t", "p">>, <<"l", "o", "c", "a", "l", "h", "o", "s", "t">> \o <<"@">> \o <<"e", "v", "i", "l", ".", "c", "o", "m">>, <<>>),
                 PlainUrl(<<"h", "t", "t", "p">>, <<"l", "o", "c", "a", "l", "h", "o", "s", "t", ".", "e", "v", "i", "l", ".", "c", "o", "m">>, <<>>)}
    /\ Unwrap(result) = [ret |-> "err", opened |-> None]
    /\ Url_parse(args).ok

====
